---- MODULE Spec2Model ----
(***************************************************************************)
(* State-machine model of the schedool scheduling engine                   *)
(* (src/scheduler.py): run_scheduler and the functions it calls.           *)
(*                                                                         *)
(* Spec: one behaviour is one call of run_scheduler on one caller-supplied *)
(* input.  The input is chosen in Init; everything after is deterministic, *)
(* as the program is.  Objects are identified by their unique keys:        *)
(* a Teacher and a Classroom by name, a Period by period_id, a Section by  *)
(* a key (its section_id while its call of run_scheduler runs).  The two   *)
(* mutable Section fields and the Period lists are kept in the variables   *)
(* assigned_teacher, assigned_classroom and assigned_sections.             *)
(*                                                                         *)
(* SpecFallbackTwice: Spec, with the greedy fallback executed a second     *)
(* time.  SpecRerun: Spec, followed by a second call of run_scheduler on   *)
(* the same objects.  SpecCheck: check(periods) alone, statement by        *)
(* statement, on arbitrary schedules, called twice.  SpecSwap: Spec on     *)
(* schools with three teachers of one or two classes each, where the swap  *)
(* repair has several teachers to choose from.  FairSpec: Spec on the      *)
(* schools of demo_run.py, run to its end.  SpecGenerate:                  *)
(* generate_sections alone on arbitrary class lists.  SpecSolveRecursive:  *)
(* Spec, with the teacher-only solver solve_recursive called where the     *)
(* teacher phase starts.  The room loop of alg.py is the operator          *)
(* label_major_scan.                                                       *)
(*                                                                         *)
(* Input well-formedness assumed throughout: class names, teacher names,   *)
(* room names and period ids are pairwise distinct, the room-type priority *)
(* list has no repeated label, and the Period objects handed to the first  *)
(* call of run_scheduler are fresh (empty lists).                          *)
(***************************************************************************)
EXTENDS Naturals, Integers, Sequences, FiniteSets, TLC

VARIABLES
    classroom_types,      \* run_scheduler argument: room-type priority labels
    classrooms,           \* run_scheduler argument: list of Classroom
    classes,              \* run_scheduler argument: list of Class
    teachers,             \* run_scheduler argument: list of Teacher
    periods,              \* run_scheduler argument: list of period_id
    all_sections,         \* ctx.all_sections: list of Section (immutable part)
    assigned_teacher,     \* Section.assigned_teacher, by section_id
    assigned_classroom,   \* Section.assigned_classroom, by section_id
    assigned_sections,    \* Period.assigned_sections, by period_id
    valid_teachers,       \* ctx.valid_teachers
    valid_rooms,          \* ctx.valid_rooms
    teacher_schedule,     \* ctx.teacher_schedule
    room_schedule,        \* ctx.room_schedule
    teacher_load,         \* ctx.teacher_load
    pc,                   \* position of run_scheduler
    stack,                \* call stack of solve_recursive_full
    ret,                  \* the last return of solve_recursive_full
    success,              \* run_scheduler's local "success": "True", "False"
    cursor,               \* loop position and loop-local sets of the running pass
    error,                \* the exception that left run_scheduler, if any
    check_result,         \* outcome of the final check(periods)
    hist,                 \* history: what the last step did
    first                 \* history: the outcome of the first of two executions

vars == <<classroom_types, classrooms, classes, teachers, periods,
          all_sections, assigned_teacher, assigned_classroom,
          assigned_sections, valid_teachers, valid_rooms, teacher_schedule,
          room_schedule, teacher_load, pc, stack, ret, success, cursor,
          error, check_result, hist, first>>

inputs == <<classroom_types, classrooms, classes, teachers, periods>>

domains == <<valid_teachers, valid_rooms>>

scoreboard == <<teacher_schedule, room_schedule, teacher_load>>

fields == <<assigned_teacher, assigned_classroom, assigned_sections>>

(***************************************************************************)
(* Bounds of the explored inputs.                                          *)
(***************************************************************************)
MaxPeriods == 2

MaxNumSections == 1

MaxLoad == 2

None == "<None>"

NoError == [kind |-> None, section |-> None]

NoHist == [op |-> None]

NoFirst == [op |-> None]

\* No call of solve_recursive_full has returned yet.
NoReturn == [value |-> None]

\* check(periods) has not been called yet.
NoCheck == [called |-> FALSE, passed |-> None]

(***************************************************************************)
(* Data classes.                                                           *)
(***************************************************************************)
Classroom(name, purposes) == [name |-> name, purposes |-> purposes]

Class(name, num_sections, required_classroom_type) ==
    [name |-> name, num_sections |-> num_sections,
     required_classroom_type |-> required_classroom_type]

Teacher(name, subjects, max_sections) ==
    [name |-> name, subjects |-> subjects, max_sections |-> max_sections]

Section(section_id, class_name, required_classroom_type) ==
    [section_id |-> section_id, class_name |-> class_name,
     required_classroom_type |-> required_classroom_type]

PeriodIds(n) == [i \in 1..n |-> "P" \o ToString(i)]

Range(s) == {s[i] : i \in 1..Len(s)}

Min(S) == CHOOSE x \in S : \A y \in S : x <= y

Names(s) == {s[i].name : i \in 1..Len(s)}

SectionIds == {all_sections[i].section_id : i \in 1..Len(all_sections)}

(***************************************************************************)
(* Class.get_sections and generate_sections.                               *)
(***************************************************************************)
get_sections_from_zero(cls) ==
    [i \in 1..cls.num_sections |-> cls.name \o "-" \o ToString(i - 1)]

get_sections(cls) ==
    [i \in 1..cls.num_sections |-> cls.name \o "-" \o ToString(i)]

RECURSIVE generate_sections(_)
generate_sections(cl) ==
    IF cl = <<>> THEN <<>>
    ELSE LET cls == Head(cl)
             ids == get_sections(cls)
         IN  [i \in 1..Len(ids) |->
                 Section(ids[i], cls.name, cls.required_classroom_type)]
             \o generate_sections(Tail(cl))

(***************************************************************************)
(* The inputs explored.  SmallSchools: every school over two room-type     *)
(* labels, up to two classes, two teachers and one or two rooms.           *)
(* DemoSchools: the input of demo_run.py and its variations in the number  *)
(* of periods, the number of rooms and the teachers' maximum loads.        *)
(***************************************************************************)
LabelOrders == {<<"r", "g">>, <<"g", "r">>, <<"r">>}

RoomLists ==
    {<<Classroom("R1", p1)>> : p1 \in {{"r"}, {"r", "g"}}}
    \cup {<<Classroom("R1", p1), Classroom("R2", p2)>> :
              p1 \in {{"r"}, {"r", "g"}}, p2 \in {{"r"}, {"g"}}}

ClassLists ==
    {<<>>}
    \cup {<<Class("A", n, "r")>> : n \in 1..MaxNumSections}
    \cup {<<Class("A", n, "r"), Class("B", m, ty)>> :
             n \in 1..MaxNumSections, m \in 1..MaxNumSections,
             ty \in {"r", "g"}}

SubjectSets == {{"A"}, {"B"}, {"A", "B"}}

\* max_sections of a teacher: none, one, or the largest load explored.
LoadValues == {0, 1, MaxLoad}

TeacherLists ==
    {<<Teacher("T1", s1, m1), Teacher("T2", s2, m2)>> :
        s1 \in SubjectSets, s2 \in SubjectSets,
        m1 \in LoadValues, m2 \in LoadValues}

InitSmallSchool ==
    /\ classroom_types \in LabelOrders
    /\ classrooms \in RoomLists
    /\ classes \in ClassLists
    /\ teachers \in TeacherLists
    /\ periods \in {PeriodIds(n) : n \in 0..MaxPeriods}

DemoClasses == <<Class("A", 1, "r"), Class("B", 1, "r"), Class("C", 1, "r")>>

DemoTeachers(m1, m2, m3) ==
    <<Teacher("T1", {"A", "C"}, m1), Teacher("T2", {"B", "C"}, m2),
      Teacher("T3", {"A"}, m3)>>

DemoRoomLists ==
    {<<Classroom("R1", {"r"})>>,
     <<Classroom("R1", {"r"}), Classroom("R2", {"r"})>>}

InitDemoSchool ==
    /\ classroom_types = <<"r">>
    /\ classrooms \in DemoRoomLists
    /\ classes = DemoClasses
    /\ teachers \in {DemoTeachers(m1, m2, m3) :
                        m1 \in LoadValues, m2 \in LoadValues,
                        m3 \in LoadValues}
    /\ periods \in {PeriodIds(n) : n \in 0..MaxPeriods}

Init ==
    /\ InitSmallSchool \/ InitDemoSchool
    /\ all_sections = <<>>
    /\ assigned_teacher = <<>>
    /\ assigned_classroom = <<>>
    /\ assigned_sections = [p \in Range(periods) |-> <<>>]
    /\ valid_teachers = <<>>
    /\ valid_rooms = <<>>
    /\ teacher_schedule = <<>>
    /\ room_schedule = <<>>
    /\ teacher_load = <<>>
    /\ pc = "start"
    /\ stack = <<>>
    /\ ret = NoReturn
    /\ success = None
    /\ cursor = [k |-> 0, used_room_names |-> {}]
    /\ error = NoError
    /\ check_result = NoCheck
    /\ hist = NoHist
    /\ first = NoFirst

(***************************************************************************)
(* Section objects.  A Section is identified in the model by a key.  The   *)
(* key of a section of the running call of run_scheduler is its            *)
(* section_id; a Section object that an earlier call left in a period list *)
(* has the key stale(section_id).  Its fields stay in assigned_teacher and *)
(* assigned_classroom under that key.                                      *)
(***************************************************************************)
stale(id) == "old " \o id

AllIds == {x.section_id : x \in Range(generate_sections(classes))}

StaleKeys == {stale(id) : id \in AllIds}

\* Section.section_id of the object with the given key
section_id_of(key) ==
    IF key \in StaleKeys THEN CHOOSE id \in AllIds : stale(id) = key
    ELSE key

\* Section.__eq__ as @dataclass generates it: field by field.  class_name
\* and required_classroom_type are determined by section_id.
equal_sections(a, b) ==
    /\ section_id_of(a) = section_id_of(b)
    /\ assigned_teacher[a] = assigned_teacher[b]
    /\ assigned_classroom[a] = assigned_classroom[b]

(***************************************************************************)
(* run_scheduler, line 341: sections = generate_sections(classes).  The    *)
(* new Section objects have no teacher and no room; the objects still held *)
(* by the period lists keep their fields.                                  *)
(***************************************************************************)
\* Variant of GenerateSections: the classes are popped from the caller's list
\* as they are converted.
GenerateSections_consuming ==
    /\ pc = "start"
    /\ all_sections' = generate_sections(classes)
    /\ assigned_teacher' =
           [s \in AllIds \cup DOMAIN assigned_teacher |->
               IF s \in AllIds THEN None ELSE assigned_teacher[s]]
    /\ assigned_classroom' =
           [s \in AllIds \cup DOMAIN assigned_classroom |->
               IF s \in AllIds THEN None ELSE assigned_classroom[s]]
    /\ classes' = <<>>
    /\ pc' = "generated"
    /\ hist' = [op |-> "generate_sections"]
    /\ UNCHANGED <<classroom_types, classrooms, teachers, periods, first,
                   assigned_sections, domains, scoreboard, stack, ret,
                   success, cursor, error, check_result>>

GenerateSections ==
    /\ pc = "start"
    /\ all_sections' = generate_sections(classes)
    /\ assigned_teacher' =
           [s \in AllIds \cup DOMAIN assigned_teacher |->
               IF s \in AllIds THEN None ELSE assigned_teacher[s]]
    /\ assigned_classroom' =
           [s \in AllIds \cup DOMAIN assigned_classroom |->
               IF s \in AllIds THEN None ELSE assigned_classroom[s]]
    /\ pc' = "generated"
    /\ hist' = [op |-> "generate_sections"]
    /\ UNCHANGED <<inputs, first, assigned_sections, domains, scoreboard, stack, ret,
                   success, cursor, error, check_result>>

(***************************************************************************)
(* build_scheduling_context.                                               *)
(***************************************************************************)
\* Variant of qualified_teachers: the subject test alone, without the test
\* of max_sections.
qualified_teachers_by_subject(section) ==
    SelectSeq(teachers, LAMBDA t : section.class_name \in t.subjects)

\* lines 101-103
qualified_teachers(section) ==
    SelectSeq(teachers, LAMBDA t : section.class_name \in t.subjects
                                   /\ t.max_sections > 0)

\* Variant of compatible_rooms: the compatible rooms in reverse list order.
compatible_rooms_reversed(section) ==
    LET fwd == SelectSeq(classrooms,
                   LAMBDA r : section.required_classroom_type \in r.purposes)
    IN  [i \in 1..Len(fwd) |-> fwd[Len(fwd) + 1 - i]]

\* lines 105-107
compatible_rooms(section) ==
    SelectSeq(classrooms,
              LAMBDA r : section.required_classroom_type \in r.purposes)

\* The position in all_sections of the first section on which the
\* fail-fast test fires, 0 when it fires on none.
FirstImpossible ==
    LET bad == {i \in 1..Len(all_sections) :
                   \/ qualified_teachers(all_sections[i]) = <<>>
                   \/ compatible_rooms(all_sections[i]) = <<>>}
    IN  IF bad = {} THEN 0
        ELSE CHOOSE i \in bad : \A j \in bad : i <= j

\* Variant of initial_teacher_schedule: the scoreboard is initialised before
\* the domains are built.
initial_teacher_schedule_eager(bad) ==
    [t \in Names(teachers) |-> [p \in Range(periods) |-> None]]

\* lines 115-121, reached only when the loop of line 100 raised nowhere.
initial_teacher_schedule(bad) ==
    IF bad = 0
    THEN [t \in Names(teachers) |-> [p \in Range(periods) |-> None]]
    ELSE teacher_schedule

\* Variant of initial_teacher_load: the loads start at one.
initial_teacher_load_one(bad) ==
    IF bad = 0 THEN [t \in Names(teachers) |-> 1] ELSE teacher_load

\* line 118
initial_teacher_load(bad) ==
    IF bad = 0 THEN [t \in Names(teachers) |-> 0] ELSE teacher_load

initial_room_schedule(bad) ==
    IF bad = 0
    THEN [r \in Names(classrooms) |-> [p \in Range(periods) |-> None]]
    ELSE room_schedule

build_scheduling_context ==
    /\ pc = "generated"
    /\ LET bad == FirstImpossible
           seen == IF bad = 0 THEN 1..Len(all_sections) ELSE 1..bad
           ids == {all_sections[i].section_id : i \in seen}
           sec(id) == CHOOSE s \in Range(all_sections) : s.section_id = id
       IN  /\ valid_teachers' = [id \in ids |-> qualified_teachers(sec(id))]
           /\ valid_rooms' = [id \in ids |-> compatible_rooms(sec(id))]
           /\ teacher_schedule' = initial_teacher_schedule(bad)
           /\ teacher_load' = initial_teacher_load(bad)
           /\ room_schedule' = initial_room_schedule(bad)
           /\ IF bad = 0
              THEN /\ pc' = "built"
                   /\ error' = error
              ELSE /\ pc' = "raised"
                   /\ error' =
                          [kind |-> IF qualified_teachers(all_sections[bad])
                                         = <<>>
                                    THEN "NO qualified teachers"
                                    ELSE "NO compatible rooms",
                           section |-> all_sections[bad].section_id]
    /\ hist' = [op |-> "build_scheduling_context"]
    /\ UNCHANGED <<inputs, first, all_sections, fields, stack, ret, success, cursor,
                   check_result>>

(***************************************************************************)
(* prioritize_sections: list.sort(key=difficulty), a stable sort.          *)
(***************************************************************************)
difficulty(section) ==
    <<IF section.section_id \in DOMAIN valid_teachers
      THEN Len(valid_teachers[section.section_id]) ELSE 0,
      IF section.section_id \in DOMAIN valid_rooms
      THEN Len(valid_rooms[section.section_id]) ELSE 0>>

\* Python's order on 2-tuples.
tuple_less(a, b) == a[1] < b[1] \/ (a[1] = b[1] /\ a[2] < b[2])

\* Variant of insert_stable: s goes in front of the elements with an equal
\* key, as in a sort that is not stable.
insert_before_equal(sorted, s) ==
    LET before == Cardinality({i \in 1..Len(sorted) :
                       tuple_less(difficulty(sorted[i]), difficulty(s))})
    IN  SubSeq(sorted, 1, before) \o <<s>>
        \o SubSeq(sorted, before + 1, Len(sorted))

\* Insert s behind every element of the sorted list whose key is not larger.
insert_stable(sorted, s) ==
    LET before == Cardinality({i \in 1..Len(sorted) :
                       ~ tuple_less(difficulty(s), difficulty(sorted[i]))})
    IN  SubSeq(sorted, 1, before) \o <<s>>
        \o SubSeq(sorted, before + 1, Len(sorted))

RECURSIVE sort_by_difficulty(_)
sort_by_difficulty(list) ==
    IF list = <<>> THEN <<>>
    ELSE insert_stable(sort_by_difficulty(SubSeq(list, 1, Len(list) - 1)),
                       list[Len(list)])

prioritize_sections ==
    /\ pc = "built"
    /\ all_sections' = sort_by_difficulty(all_sections)
    /\ pc' = "prioritized"
    /\ hist' = [op |-> "prioritize_sections"]
    /\ UNCHANGED <<inputs, first, fields, domains, scoreboard, stack, ret, success,
                   cursor, error, check_result>>

(***************************************************************************)
(* solve_recursive_full.  The recursion is an explicit stack of frames;    *)
(* a frame holds section_index (0-based, as in the code), the positions    *)
(* (pi, ri, ti) of its three nested loops, and where it stands:            *)
(*   "try"      running its loops, looking for the next triple to choose;  *)
(*   "recurse"  waiting for the recursive call of line 319;                *)
(*   "undo"     the recursive call returned False, lines 323-333 are next. *)
(* entry is the mutable state as it was when the call was entered.         *)
(***************************************************************************)
Snapshot ==
    [teacher_schedule |-> teacher_schedule,
     room_schedule |-> room_schedule,
     teacher_load |-> teacher_load,
     assigned_teacher |-> assigned_teacher,
     assigned_classroom |-> assigned_classroom,
     assigned_sections |-> assigned_sections]

Frame(section_index) ==
    [section_index |-> section_index, pi |-> 1, ri |-> 1, ti |-> 1,
     at |-> "try", entry |-> Snapshot]

Top == stack[Len(stack)]

section_of(frame) == all_sections[frame.section_index + 1]

\* Variant of rooms_of: every room, compatible or not.
rooms_of_any_type(section) == classrooms

\* line 296: ctx.valid_rooms.get(section.section_id, [])
rooms_of(section) ==
    IF section.section_id \in DOMAIN valid_rooms
    THEN valid_rooms[section.section_id] ELSE <<>>

\* line 302: ctx.valid_teachers.get(section.section_id, [])
teachers_of(section) ==
    IF section.section_id \in DOMAIN valid_teachers
    THEN valid_teachers[section.section_id] ELSE <<>>

\* Variant of room_is_free: the test of line 298 is missing.
room_is_free_untested(room, p_id) == room.name \in DOMAIN room_schedule

\* line 298
room_is_free(room, p_id) == room_schedule[room.name][p_id] = None

\* Variant of teacher_is_free: tests that the teacher has a schedule at all
\* instead of testing the slot of the period.
teacher_is_free_any_slot(teacher, p_id) ==
    teacher.name \in DOMAIN teacher_schedule

\* line 304
teacher_is_free(teacher, p_id) == teacher_schedule[teacher.name][p_id] = None

\* Variant of under_max_load: off by one (<= for <).
under_max_load_inclusive(teacher) ==
    teacher_load[teacher.name] <= teacher.max_sections

\* line 306
under_max_load(teacher) == teacher_load[teacher.name] < teacher.max_sections

\* Variant of all_placed: off by one, the last section is never placed.
all_placed_one_early(section_index) ==
    section_index >= Len(all_sections) - 1

\* line 286: the base case, all sections placed
all_placed(section_index) == section_index >= Len(all_sections)

\* The loop nest of lines 292-307: the triples of positions in iteration order.
Triples(section) ==
    (1..Len(periods)) \X (1..Len(rooms_of(section)))
                      \X (1..Len(teachers_of(section)))

\* Variant of triple_le: the loops nested rooms outer, periods middle,
\* teachers inner.
triple_le_rooms_outer(a, b) ==
    \/ a[2] < b[2]
    \/ a[2] = b[2] /\ a[1] < b[1]
    \/ a[2] = b[2] /\ a[1] = b[1] /\ a[3] <= b[3]

\* lines 292, 296, 302: periods outer, rooms middle, teachers inner.
triple_le(a, b) ==
    \/ a[1] < b[1]
    \/ a[1] = b[1] /\ a[2] < b[2]
    \/ a[1] = b[1] /\ a[2] = b[2] /\ a[3] <= b[3]

eligible(section, tr) ==
    /\ room_is_free(rooms_of(section)[tr[2]], periods[tr[1]])
    /\ teacher_is_free(teachers_of(section)[tr[3]], periods[tr[1]])
    /\ under_max_load(teachers_of(section)[tr[3]])

\* The triples the loops of a frame still reach and do not skip.
remaining(frame) ==
    {tr \in Triples(section_of(frame)) :
        /\ triple_le(<<frame.pi, frame.ri, frame.ti>>, tr)
        /\ eligible(section_of(frame), tr)}

next_triple(frame) ==
    CHOOSE tr \in remaining(frame) : \A o \in remaining(frame) : triple_le(tr, o)

\* list.remove(x): drop the first element equal to x; ValueError is
\* swallowed (328-331).
RECURSIVE remove(_, _)
remove(list, x) ==
    IF list = <<>> THEN <<>>
    ELSE IF equal_sections(Head(list), x) THEN Tail(list)
    ELSE <<Head(list)>> \o remove(Tail(list), x)

\* Variant of undo_teacher_load: the decrement is forgotten.
undo_teacher_load_forgotten(teacher) == teacher_load

\* line 323
undo_teacher_load(teacher) ==
    [teacher_load EXCEPT ![teacher.name] = @ - 1]

\* Variant of undo_teacher_schedule: the slot of the teacher stays occupied.
undo_teacher_schedule_forgotten(teacher, p_id) == teacher_schedule

\* line 324
undo_teacher_schedule(teacher, p_id) ==
    [teacher_schedule EXCEPT ![teacher.name][p_id] = None]

\* Variant of undo_room_schedule: the room stays marked as occupied.
undo_room_schedule_forgotten(room, p_id) == room_schedule

\* line 325
undo_room_schedule(room, p_id) ==
    [room_schedule EXCEPT ![room.name][p_id] = None]

\* run_scheduler line 348: the top-level call solve_recursive_full(ctx).
SolveCall ==
    /\ pc = "prioritized"
    /\ stack' = <<Frame(0)>>
    /\ pc' = "solving"
    /\ hist' = [op |-> "call", section_index |-> 0]
    /\ UNCHANGED <<inputs, first, all_sections, fields, domains, scoreboard, ret,
                   success, cursor, error, check_result>>

\* lines 286-287, and the "return True" of line 320 in every frame below.
BaseCase ==
    /\ pc = "solving"
    /\ Top.at = "try"
    /\ all_placed(Top.section_index)
    /\ stack' = <<>>
    /\ ret' = [value |-> TRUE, section_index |-> Top.section_index,
               entry |-> Top.entry]
    /\ success' = "True"
    /\ pc' = "solved"
    /\ hist' = [op |-> "return_true"]
    /\ UNCHANGED <<inputs, first, all_sections, fields, domains, scoreboard, cursor,
                   error, check_result>>

\* lines 309-319: commit the next triple the loops reach and recurse.
Choose ==
    /\ pc = "solving"
    /\ Top.at = "try"
    /\ ~ all_placed(Top.section_index)
    /\ remaining(Top) # {}
    /\ LET section == section_of(Top)
           tr == next_triple(Top)
           p_id == periods[tr[1]]
           room == rooms_of(section)[tr[2]]
           teacher == teachers_of(section)[tr[3]]
           id == section.section_id
       IN  /\ assigned_classroom' = [assigned_classroom EXCEPT ![id] = room.name]
           /\ assigned_teacher' = [assigned_teacher EXCEPT ![id] = teacher.name]
           /\ assigned_sections' =
                  [assigned_sections EXCEPT ![p_id] = Append(@, id)]
           /\ room_schedule' = [room_schedule EXCEPT ![room.name][p_id] = id]
           /\ teacher_schedule' =
                  [teacher_schedule EXCEPT ![teacher.name][p_id] = id]
           /\ teacher_load' = [teacher_load EXCEPT ![teacher.name] = @ + 1]
           /\ stack' =
                  [stack EXCEPT ![Len(stack)] =
                      [@ EXCEPT !.pi = tr[1], !.ri = tr[2], !.ti = tr[3],
                                !.at = "recurse"]]
                  \o <<[Frame(Top.section_index + 1) EXCEPT !.entry =
                          [teacher_schedule |-> teacher_schedule',
                           room_schedule |-> room_schedule',
                           teacher_load |-> teacher_load',
                           assigned_teacher |-> assigned_teacher',
                           assigned_classroom |-> assigned_classroom',
                           assigned_sections |-> assigned_sections']]>>
           /\ hist' = [op |-> "choose", section_id |-> id, p_id |-> p_id,
                       room |-> room.name, teacher |-> teacher.name,
                       before |-> Snapshot]
    /\ UNCHANGED <<inputs, first, all_sections, domains, ret, success, cursor, error,
                   check_result, pc>>

\* line 336: the loops are exhausted, the call returns False to its caller.
ReturnFalse ==
    /\ pc = "solving"
    /\ Top.at = "try"
    /\ ~ all_placed(Top.section_index)
    /\ remaining(Top) = {}
    /\ ret' = [value |-> FALSE, section_index |-> Top.section_index,
               entry |-> Top.entry]
    /\ IF Len(stack) = 1
       THEN /\ stack' = <<>>
            /\ success' = "False"
            /\ pc' = "failed"
       ELSE /\ stack' = [SubSeq(stack, 1, Len(stack) - 1)
                            EXCEPT ![Len(stack) - 1].at = "undo"]
            /\ UNCHANGED <<success, pc>>
    /\ hist' = [op |-> "return_false"]
    /\ UNCHANGED <<inputs, first, all_sections, fields, domains, scoreboard, cursor,
                   error, check_result>>

\* Variant of next_teacher: the loop stays at the teacher it has just tried.
next_teacher_again(frame) == [frame EXCEPT !.at = "try"]

\* line 302: the teacher loop takes the next element after the backtrack.
next_teacher(frame) == [frame EXCEPT !.ti = @ + 1, !.at = "try"]

\* lines 323-333, then the teacher loop goes on with the next teacher.
Backtrack ==
    /\ pc = "solving"
    /\ Top.at = "undo"
    /\ LET section == section_of(Top)
           p_id == periods[Top.pi]
           room == rooms_of(section)[Top.ri]
           teacher == teachers_of(section)[Top.ti]
           id == section.section_id
       IN  /\ teacher_load' = undo_teacher_load(teacher)
           /\ teacher_schedule' = undo_teacher_schedule(teacher, p_id)
           /\ room_schedule' = undo_room_schedule(room, p_id)
           /\ assigned_sections' =
                  [assigned_sections EXCEPT ![p_id] = remove(@, id)]
           /\ assigned_teacher' = [assigned_teacher EXCEPT ![id] = None]
           /\ assigned_classroom' = [assigned_classroom EXCEPT ![id] = None]
           /\ hist' = [op |-> "backtrack", section_id |-> id]
    /\ stack' = [stack EXCEPT ![Len(stack)] = next_teacher(@)]
    /\ UNCHANGED <<inputs, first, all_sections, domains, ret, success, cursor, error,
                   check_result, pc>>

(***************************************************************************)
(* run_scheduler lines 356-368: reset before the greedy fallback.          *)
(***************************************************************************)
NoCursor == [k |-> 0, used_room_names |-> {}]

ResetForFallback ==
    /\ pc = "failed"
    /\ assigned_sections' = [p \in Range(periods) |-> <<>>]
    /\ assigned_teacher' = [id \in SectionIds |-> None]
    /\ assigned_classroom' = [id \in SectionIds |-> None]
    /\ teacher_schedule' =
           [t \in Names(teachers) |-> [p \in Range(periods) |-> None]]
    /\ teacher_load' = [t \in Names(teachers) |-> 0]
    /\ room_schedule' =
           [r \in Names(classrooms) |-> [p \in Range(periods) |-> None]]
    /\ pc' = "assign_sections_to_periods"
    /\ cursor' = NoCursor
    /\ hist' = [op |-> "reset"]
    /\ UNCHANGED <<inputs, first, all_sections, domains, stack, ret, success, error,
                   check_result>>

\* A second execution of lines 356-373 after the first has ended: the reset,
\* then the three greedy passes again, on the same context.  first keeps
\* what the first execution left.
FallbackAgain ==
    /\ pc = "fallback_done"
    /\ first.op = None
    /\ first' = [op |-> "fallback", outcome |-> Snapshot]
    /\ assigned_sections' = [p \in Range(periods) |-> <<>>]
    /\ assigned_teacher' = [id \in SectionIds |-> None]
    /\ assigned_classroom' = [id \in SectionIds |-> None]
    /\ teacher_schedule' =
           [t \in Names(teachers) |-> [p \in Range(periods) |-> None]]
    /\ teacher_load' = [t \in Names(teachers) |-> 0]
    /\ room_schedule' =
           [r \in Names(classrooms) |-> [p \in Range(periods) |-> None]]
    /\ pc' = "assign_sections_to_periods"
    /\ cursor' = NoCursor
    /\ hist' = [op |-> "reset"]
    /\ UNCHANGED <<inputs, all_sections, domains, stack, ret, success, error,
                   check_result>>

(***************************************************************************)
(* assign_sections_to_periods.  One step is one execution of lines         *)
(* 148-149; cursor.k is period_idx.                                        *)
(***************************************************************************)
sections_requiring_any(c_type) == all_sections

\* lines 145-147: the sections that pass the test of line 146 for a label
sections_requiring(c_type) ==
    SelectSeq(all_sections, LAMBDA x : x.required_classroom_type = c_type)

\* The sections in the order in which the two nested loops reach line 148.
RECURSIVE append_order(_)
append_order(types) ==
    IF types = <<>> THEN <<>>
    ELSE sections_requiring(Head(types)) \o append_order(Tail(types))

\* Variant of round_robin: period_idx starts again at 0 with every label.
round_robin_per_label(period_idx) ==
    LET order == append_order(classroom_types)
        label == order[period_idx + 1].required_classroom_type
        in_label == Cardinality({i \in 1..period_idx :
                        order[i].required_classroom_type = label})
    IN  (in_label % Len(periods)) + 1

\* Variant of round_robin: the periods are taken from the last one down.
round_robin_backwards(period_idx) ==
    Len(periods) - (period_idx % Len(periods))

\* line 148: the position in periods that period_idx selects.
round_robin(period_idx) == (period_idx % Len(periods)) + 1

AssignSectionToPeriod ==
    /\ pc = "assign_sections_to_periods"
    /\ cursor.k < Len(append_order(classroom_types))
    /\ IF Len(periods) = 0
       THEN \* period_idx % len(periods) divides by zero
            /\ pc' = "raised"
            /\ error' = [kind |-> "ZeroDivisionError", section |-> None]
            /\ UNCHANGED <<assigned_sections, cursor>>
       ELSE /\ assigned_sections' =
                   [assigned_sections EXCEPT
                       ![periods[round_robin(cursor.k)]] =
                           Append(@, append_order(classroom_types)
                                        [cursor.k + 1].section_id)]
            /\ cursor' = [cursor EXCEPT !.k = @ + 1]
            /\ UNCHANGED <<pc, error>>
    /\ hist' = [op |-> "assign_period"]
    /\ UNCHANGED <<inputs, first, all_sections, assigned_teacher, assigned_classroom,
                   domains, scoreboard, stack, ret, success, check_result>>

\* The (period position, list position) pairs in the order in which the
\* loops "for p in periods: for section in p.assigned_sections" visit them.
RECURSIVE slots_from(_)
slots_from(pi) ==
    IF pi > Len(periods) THEN <<>>
    ELSE [i \in 1..Len(assigned_sections[periods[pi]]) |-> <<pi, i>>]
         \o slots_from(pi + 1)

Slots == slots_from(1)

PassLength ==
    CASE pc = "assign_sections_to_periods" -> Len(append_order(classroom_types))
      [] pc = "assign_classrooms_to_sections" -> Len(Slots)
      [] pc = "assign_teachers_to_sections" -> Len(Slots)
      [] OTHER -> 0

\* The running greedy pass has finished its loops; the next one starts.
PassReturn ==
    /\ pc \in {"assign_sections_to_periods", "assign_classrooms_to_sections",
               "assign_teachers_to_sections"}
    /\ cursor.k = PassLength
    /\ pc' = CASE pc = "assign_sections_to_periods" ->
                      "assign_classrooms_to_sections"
               [] pc = "assign_classrooms_to_sections" ->
                      "assign_teachers_to_sections"
               [] pc = "assign_teachers_to_sections" -> "fallback_done"
    /\ cursor' = NoCursor
    /\ hist' = [op |-> "pass_return", pass |-> pc]
    /\ UNCHANGED <<inputs, first, all_sections, fields, domains, scoreboard, stack,
                   ret, success, error, check_result>>

(***************************************************************************)
(* assign_classrooms_to_sections.  One step is one iteration of the loop   *)
(* of line 159 (one section of one period).                                *)
(***************************************************************************)
\* lines 161-173: the room the loop assigns (None when it finds none) and
\* the used_room_names it leaves, scanning rooms[i..].
RECURSIVE scan_rooms(_, _, _, _)
scan_rooms(rooms, i, p_id, used) ==
    IF i > Len(rooms) THEN [room |-> None, used |-> used]
    ELSE IF rooms[i].name \in used
         THEN scan_rooms(rooms, i + 1, p_id, used)
    ELSE IF room_schedule[rooms[i].name][p_id] # None
         THEN scan_rooms(rooms, i + 1, p_id, used \cup {rooms[i].name})
    ELSE [room |-> rooms[i].name, used |-> used \cup {rooms[i].name}]

\* Variant of scan_rooms: the compatible rooms are scanned from the last one
\* of the list to the first.
scan_rooms_from_last(rooms, i, p_id, used) ==
    scan_rooms([j \in 1..Len(rooms) |-> rooms[Len(rooms) + 1 - j]],
               i, p_id, used)

\* lines 161-173 for one section of one period
rooms_scan(rooms, i, p_id, used) == scan_rooms(rooms, i, p_id, used)

AssignClassroom ==
    /\ pc = "assign_classrooms_to_sections"
    /\ cursor.k < Len(Slots)
    /\ LET slot == Slots[cursor.k + 1]
           p_id == periods[slot[1]]
           id == assigned_sections[p_id][slot[2]]
           section == CHOOSE x \in Range(all_sections) : x.section_id = id
           \* line 158: a new set at the first section of each period
           used == IF slot[2] = 1 THEN {} ELSE cursor.used_room_names
           found == rooms_scan(rooms_of(section), 1, p_id, used)
       IN  /\ IF found.room = None
              THEN UNCHANGED <<assigned_classroom, room_schedule>>
              ELSE /\ assigned_classroom' =
                          [assigned_classroom EXCEPT ![id] = found.room]
                   /\ room_schedule' =
                          [room_schedule EXCEPT ![found.room][p_id] = id]
           /\ cursor' = [k |-> cursor.k + 1, used_room_names |-> found.used]
           /\ hist' = [op |-> "assign_room", section_id |-> id,
                       p_id |-> p_id, room |-> found.room]
    /\ UNCHANGED <<inputs, first, all_sections, assigned_teacher, assigned_sections,
                   domains, teacher_schedule, teacher_load, stack, ret,
                   success, error, check_result, pc>>

(***************************************************************************)
(* The room loop of alg.py (lines 143-157) for one period: labels in       *)
(* priority order, per label the rooms not yet used in the period in list  *)
(* order, each given to the first section of the period that requires the  *)
(* label and has no room.  given maps the sections of the period to their  *)
(* room (None: no room); used_rooms is the list of line 145, as a set.     *)
(***************************************************************************)
required_type_of(id) ==
    (CHOOSE x \in Range(all_sections) : x.section_id = id)
        .required_classroom_type

RECURSIVE label_major_scan(_, _, _, _, _)
label_major_scan(list, li, ri, given, used_rooms) ==
    IF li > Len(classroom_types) THEN given
    ELSE IF ri > Len(classrooms)
         THEN label_major_scan(list, li + 1, 1, given, used_rooms)
    ELSE LET c_type == classroom_types[li]
             room == classrooms[ri]
             takers == {i \in 1..Len(list) :
                           /\ c_type \in room.purposes
                           /\ c_type = required_type_of(list[i])
                           /\ given[list[i]] = None}
         IN  IF room.name \in used_rooms \/ takers = {}
             THEN label_major_scan(list, li, ri + 1, given, used_rooms)
             ELSE label_major_scan(list, li, ri + 1,
                      [given EXCEPT ![list[Min(takers)]] = room.name],
                      used_rooms \cup {room.name})

\* The rooms the loop gives to the sections of a period list, none of which
\* has a room before.
label_major_rooms(list) ==
    label_major_scan(list, 1, 1, [id \in Range(list) |-> None], {})

(***************************************************************************)
(* assign_teachers_to_sections.  One step is one iteration of the loop of  *)
(* line 179 (one section of one period).                                   *)
(***************************************************************************)
\* Variant of free_and_under_load: the load test is off by one, a teacher
\* one section below its maximum counts as full.
free_and_under_load_early(t, p_id) ==
    teacher_schedule[t.name][p_id] = None
    /\ teacher_load[t.name] + 1 < t.max_sections

\* line 191 and line 213
free_and_under_load(t, p_id) ==
    teacher_schedule[t.name][p_id] = None
    /\ teacher_load[t.name] < t.max_sections

\* Variant of direct_candidates: a section without a room is passed over.
direct_candidates_roomed(id, p_id) ==
    IF assigned_classroom[id] = None THEN {}
    ELSE {i \in 1..Len(valid_teachers[id]) :
             free_and_under_load(valid_teachers[id][i], p_id)}

\* lines 190-195: positions of the teachers the direct pass may take.
direct_candidates(id, p_id) ==
    {i \in 1..Len(valid_teachers[id]) :
        free_and_under_load(valid_teachers[id][i], p_id)}

\* lines 209-213: positions of the alternates for the section qt teaches.
alternates(qt, cs, p_id) ==
    {j \in 1..Len(valid_teachers[cs]) :
        /\ valid_teachers[cs][j].name # qt.name
        /\ free_and_under_load(valid_teachers[cs][j], p_id)}

\* Variant of swap_candidates: no swap repair.
swap_candidates_none(id, p_id) == {}

\* Variant of swap_candidates: the last busy qualified teacher whose
\* conflicting section has an alternate is taken, not the first.
swap_candidates_last(id, p_id) ==
    LET all == {i \in 1..Len(valid_teachers[id]) :
                   LET qt == valid_teachers[id][i]
                       cs == teacher_schedule[qt.name][p_id]
                   IN  cs # None /\ alternates(qt, cs, p_id) # {}}
    IN  {i \in all : \A j \in all : j <= i}

\* lines 202-206: positions of the qualified teachers busy in the period
\* whose conflicting section has an alternate.
swap_candidates(id, p_id) ==
    {i \in 1..Len(valid_teachers[id]) :
        LET qt == valid_teachers[id][i]
            cs == teacher_schedule[qt.name][p_id]
        IN  cs # None /\ alternates(qt, cs, p_id) # {}}

\* Variant of direct_pick: the qualified teachers are visited in no fixed
\* order, as the elements of a set are.
direct_pick_any(id, p_id, i) == TRUE

\* Variant of direct_pick: the last teacher of the list that passes the test
\* is taken (no break at the first).
direct_pick_last(id, p_id, i) ==
    \A j \in direct_candidates(id, p_id) : j <= i

\* lines 190-195: the list is scanned in order and the loop breaks at the
\* first teacher that passes the test of line 191.
direct_pick(id, p_id, i) == i = Min(direct_candidates(id, p_id))

\* Variant of swap_teacher_load: qt is not released from the conflicting
\* section before it takes the blocked one.
swap_teacher_load_no_release(qt, alt) ==
    [teacher_load EXCEPT ![alt.name] = @ + 1, ![qt.name] = @ + 1]

\* lines 218, 222 and 227
swap_teacher_load(qt, alt) ==
    [teacher_load EXCEPT ![alt.name] = @ + 1, ![qt.name] = (@ - 1) + 1]

\* Variant of swap_assigned_teacher: the swap also takes the teacher from
\* every other section of the period.
swap_assigned_teacher_clearing(id, cs, qt, alt, p_id) ==
    [x \in DOMAIN assigned_teacher |->
        IF x = cs THEN alt.name
        ELSE IF x = id THEN qt.name
        ELSE IF x \in Range(assigned_sections[p_id]) THEN None
        ELSE assigned_teacher[x]]

\* lines 216 and 225: the two sections whose teacher the swap sets
\* (section id of period p_id gets qt, the conflicting section cs gets alt).
swap_assigned_teacher(id, cs, qt, alt, p_id) ==
    [assigned_teacher EXCEPT ![cs] = alt.name, ![id] = qt.name]

swap_teacher_schedule_stale(id, cs, qt, alt, p_id) ==
    [teacher_schedule EXCEPT ![alt.name][p_id] = cs]

\* lines 217, 221 and 226: the alternate teaches the conflicting section,
\* the slot of qt is emptied and then given to the blocked section.
swap_teacher_schedule(id, cs, qt, alt, p_id) ==
    [teacher_schedule EXCEPT ![alt.name][p_id] = cs, ![qt.name][p_id] = id]

AssignTeacher ==
    /\ pc = "assign_teachers_to_sections"
    /\ cursor.k < Len(Slots)
    /\ LET slot == Slots[cursor.k + 1]
           p_id == periods[slot[1]]
           id == assigned_sections[p_id][slot[2]]
       IN  IF assigned_teacher[id] # None
           THEN \* lines 181-187
                /\ teacher_schedule' =
                       [teacher_schedule EXCEPT
                           ![assigned_teacher[id]][p_id] = id]
                /\ teacher_load' =
                       [teacher_load EXCEPT ![assigned_teacher[id]] = @ + 1]
                /\ UNCHANGED assigned_teacher
                /\ hist' = [op |-> "preassigned", section_id |-> id,
                            p_id |-> p_id]
           ELSE IF direct_candidates(id, p_id) # {}
           THEN \* lines 190-195
                \E i \in direct_candidates(id, p_id) :
                    /\ direct_pick(id, p_id, i)
                    /\ LET t == valid_teachers[id][i]
                       IN  /\ assigned_teacher' =
                                  [assigned_teacher EXCEPT ![id] = t.name]
                           /\ teacher_schedule' =
                                  [teacher_schedule EXCEPT
                                      ![t.name][p_id] = id]
                           /\ teacher_load' =
                                  [teacher_load EXCEPT ![t.name] = @ + 1]
                           /\ hist' = [op |-> "direct", section_id |-> id,
                                       p_id |-> p_id, teacher |-> t.name]
           ELSE IF swap_candidates(id, p_id) # {}
           THEN \* lines 202-233
                LET qt == valid_teachers[id][Min(swap_candidates(id, p_id))]
                    cs == teacher_schedule[qt.name][p_id]
                    alt == valid_teachers[cs][Min(alternates(qt, cs, p_id))]
                IN  /\ assigned_teacher' =
                           swap_assigned_teacher(id, cs, qt, alt, p_id)
                    /\ teacher_schedule' =
                           swap_teacher_schedule(id, cs, qt, alt, p_id)
                    /\ teacher_load' = swap_teacher_load(qt, alt)
                    /\ hist' = [op |-> "swap", section_id |-> id,
                                p_id |-> p_id, qt |-> qt.name,
                                alt |-> alt.name, cs |-> cs,
                                before |-> Snapshot]
           ELSE \* lines 235-237
                /\ UNCHANGED <<assigned_teacher, teacher_schedule,
                               teacher_load>>
                /\ hist' = [op |-> "unassigned", section_id |-> id,
                            p_id |-> p_id]
    /\ cursor' = [cursor EXCEPT !.k = @ + 1]
    /\ UNCHANGED <<inputs, first, all_sections, assigned_classroom,
                   assigned_sections, domains, room_schedule, stack, ret,
                   success, error, check_result, pc>>

(***************************************************************************)
(* check(periods): the first conflict in iteration order, if any.          *)
(***************************************************************************)
duplicate_section(p_id, i) ==
    \E j \in 1..(i - 1) :
        section_id_of(assigned_sections[p_id][j])
            = section_id_of(assigned_sections[p_id][i])

teacher_conflict(p_id, i) ==
    /\ assigned_teacher[assigned_sections[p_id][i]] # None
    /\ \E j \in 1..(i - 1) :
           assigned_teacher[assigned_sections[p_id][j]]
               = assigned_teacher[assigned_sections[p_id][i]]

classroom_conflict(p_id, i) ==
    /\ assigned_classroom[assigned_sections[p_id][i]] # None
    /\ \E j \in 1..(i - 1) :
           assigned_classroom[assigned_sections[p_id][j]]
               = assigned_classroom[assigned_sections[p_id][i]]

conflicting_sections_first_two(p_id, field, name) ==
    LET keys == SelectSeq(assigned_sections[p_id], LAMBDA x : field[x] = name)
    IN  [i \in 1..Min({2, Len(keys)}) |-> section_id_of(keys[i])]

\* lines 420-421 and 433-434: the ids of the period's entries whose field
\* (teacher or room) is the given name
conflicting_sections(p_id, field, name) ==
    LET keys == SelectSeq(assigned_sections[p_id], LAMBDA x : field[x] = name)
    IN  [i \in 1..Len(keys) |-> section_id_of(keys[i])]

conflict_slots ==
    {k \in 1..Len(Slots) :
        LET p_id == periods[Slots[k][1]]
            i == Slots[k][2]
        IN  \/ duplicate_section(p_id, i)
            \/ teacher_conflict(p_id, i)
            \/ classroom_conflict(p_id, i)}

check ==
    IF conflict_slots = {} THEN [passed |-> TRUE]
    ELSE LET slot == Slots[Min(conflict_slots)]
             p_id == periods[slot[1]]
             i == slot[2]
             id == assigned_sections[p_id][i]
         IN  IF duplicate_section(p_id, i)
             THEN [passed |-> FALSE, kind |-> "Section", period |-> p_id,
                   name |-> section_id_of(id), conflicting_sections |-> <<>>]
             ELSE IF teacher_conflict(p_id, i)
             THEN [passed |-> FALSE, kind |-> "Teacher", period |-> p_id,
                   name |-> assigned_teacher[id],
                   conflicting_sections |->
                       conflicting_sections(p_id, assigned_teacher,
                                            assigned_teacher[id])]
             ELSE [passed |-> FALSE, kind |-> "Classroom", period |-> p_id,
                   name |-> assigned_classroom[id],
                   conflicting_sections |->
                       conflicting_sections(p_id, assigned_classroom,
                                            assigned_classroom[id])]

is_fully_assigned_teacher_only(id) ==
    assigned_teacher[id] # None

\* Section.is_fully_assigned
is_fully_assigned(id) ==
    assigned_teacher[id] # None /\ assigned_classroom[id] # None

\* run_scheduler lines 375-397: count, validate (the exception of check is
\* caught and printed) and return ctx.all_sections.
CheckAndReturn ==
    /\ pc \in {"solved", "fallback_done"}
    /\ check_result' = check
    /\ pc' = "returned"
    /\ hist' = [op |-> "return", fully_assigned |->
                   Cardinality({id \in SectionIds : is_fully_assigned(id)})]
    /\ UNCHANGED <<inputs, first, all_sections, fields, domains, scoreboard, stack,
                   ret, success, cursor, error>>

Next ==
    \/ GenerateSections
    \/ build_scheduling_context
    \/ prioritize_sections
    \/ SolveCall
    \/ BaseCase
    \/ Choose
    \/ ReturnFalse
    \/ Backtrack
    \/ ResetForFallback
    \/ AssignSectionToPeriod
    \/ AssignClassroom
    \/ AssignTeacher
    \/ PassReturn
    \/ CheckAndReturn

Spec == Init /\ [][Next]_vars

\* The caller calls run_scheduler a second time with the same classrooms,
\* classes, teachers and Period objects.  The period lists still hold the
\* Section objects of the first call, with their fields; everything else of
\* the first call (its context, its locals) is gone.  first keeps what the
\* first call returned.
RunAgain ==
    /\ pc = "returned"
    /\ first.op = None
    /\ first' = [op |-> "run_scheduler",
                 outcome |-> [all_sections |-> all_sections,
                              assigned_sections |-> assigned_sections,
                              assigned_teacher |-> assigned_teacher,
                              assigned_classroom |-> assigned_classroom,
                              success |-> success,
                              check_result |-> check_result]]
    /\ assigned_sections' =
           [p \in Range(periods) |->
               [i \in 1..Len(assigned_sections[p]) |->
                   stale(assigned_sections[p][i])]]
    /\ assigned_teacher' =
           [k \in StaleKeys |->
               assigned_teacher[CHOOSE id \in AllIds : stale(id) = k]]
    /\ assigned_classroom' =
           [k \in StaleKeys |->
               assigned_classroom[CHOOSE id \in AllIds : stale(id) = k]]
    /\ all_sections' = <<>>
    /\ valid_teachers' = <<>>
    /\ valid_rooms' = <<>>
    /\ teacher_schedule' = <<>>
    /\ room_schedule' = <<>>
    /\ teacher_load' = <<>>
    /\ pc' = "start"
    /\ stack' = <<>>
    /\ ret' = NoReturn
    /\ success' = None
    /\ cursor' = NoCursor
    /\ error' = NoError
    /\ check_result' = NoCheck
    /\ hist' = [op |-> "run_again"]
    /\ UNCHANGED inputs

NextRerun ==
    \/ Next
    \/ RunAgain

SpecRerun == Init /\ [][NextRerun]_vars

\* Schools in which a blocked section can have several busy qualified
\* teachers, and a conflicting section several alternates: three teachers
\* who each teach two of the three classes or class C alone, class B in a
\* room type of its own, and one room that serves both types.
SwapSubjectSets == {{"A", "B"}, {"A", "C"}, {"B", "C"}, {"C"}}

InitSwapSchool ==
    /\ classroom_types \in {<<"r", "g">>, <<"g", "r">>}
    /\ classrooms \in {<<Classroom("R1", {"r", "g"})>>,
                       <<Classroom("R1", {"r", "g"}), Classroom("R2", {"r"})>>}
    /\ classes \in {<<Class("A", 1, "r"), Class("B", 1, "g")>>,
                    <<Class("A", 1, "r"), Class("B", 1, "g"),
                      Class("C", 1, "r")>>}
    /\ teachers \in {<<Teacher("T1", s1, m1), Teacher("T2", s2, m2),
                        Teacher("T3", s3, m3)>> :
                         s1 \in SwapSubjectSets, s2 \in SwapSubjectSets,
                         s3 \in SwapSubjectSets,
                         m1 \in {1, MaxLoad}, m2 \in {1, MaxLoad},
                         m3 \in {1, MaxLoad}}
    /\ periods \in {PeriodIds(n) : n \in 1..MaxPeriods}

InitSwap ==
    /\ InitSwapSchool
    /\ all_sections = <<>>
    /\ assigned_teacher = <<>>
    /\ assigned_classroom = <<>>
    /\ assigned_sections = [p \in Range(periods) |-> <<>>]
    /\ valid_teachers = <<>>
    /\ valid_rooms = <<>>
    /\ teacher_schedule = <<>>
    /\ room_schedule = <<>>
    /\ teacher_load = <<>>
    /\ pc = "start"
    /\ stack = <<>>
    /\ ret = NoReturn
    /\ success = None
    /\ cursor = NoCursor
    /\ error = NoError
    /\ check_result = NoCheck
    /\ hist = NoHist
    /\ first = NoFirst

\* One call of run_scheduler on such a school.
SpecSwap == InitSwap /\ [][Next]_vars

\* The variables that tell where the run stands; every step changes one.
position_of_run == <<pc, stack, cursor>>

\* One call of run_scheduler on a school of demo_run.py, run to its end:
\* the interpreter executes the next statement whenever there is one.
InitDemo == InitDemoSchool /\ Init

FairSpec == InitDemo /\ [][Next]_vars /\ WF_position_of_run(Next)

\* A run of run_scheduler in which the greedy fallback, when it is reached,
\* is executed a second time from the reset state.
NextFallbackTwice ==
    \/ Next
    \/ FallbackAgain

SpecFallbackTwice == Init /\ [][NextFallbackTwice]_vars

(***************************************************************************)
(* check(periods), statement by statement, on the schedules a caller can   *)
(* hand to it: any period lists over the sections A-1, B-1, C-1 (repeated  *)
(* entries included) with any teacher and room, or none, on each section.  *)
(* One step is one iteration of the loop of line 407.  cursor.k counts the *)
(* entries visited; cursor also holds the three sets of lines 403-405.     *)
(* A finished call is followed by a second call on the same, untouched     *)
(* schedule, as in test_scenario of main.py (run_scheduler's call of line  *)
(* 393, then the call of line 24).                                         *)
(***************************************************************************)
EntryLists ==
    UNION {[1..m -> {"A-1", "B-1", "C-1"}] : m \in 0..Len(DemoClasses)}

InitCheck ==
    /\ classroom_types = <<"r">>
    /\ classrooms = <<Classroom("R1", {"r"}), Classroom("R2", {"r"})>>
    /\ classes = DemoClasses
    /\ teachers = DemoTeachers(1, 1, 1)
    /\ periods \in {PeriodIds(n) : n \in 0..MaxPeriods}
    /\ all_sections = generate_sections(DemoClasses)
    /\ assigned_sections \in [Range(periods) -> EntryLists]
    /\ Len(slots_from(1)) <= Len(DemoClasses)
    /\ assigned_teacher \in [{"A-1", "B-1", "C-1"} -> {None, "T1", "T2"}]
    /\ assigned_classroom \in [{"A-1", "B-1", "C-1"} -> {None, "R1"}]
    /\ valid_teachers = <<>>
    /\ valid_rooms = <<>>
    /\ teacher_schedule = <<>>
    /\ room_schedule = <<>>
    /\ teacher_load = <<>>
    /\ pc = "check"
    /\ stack = <<>>
    /\ ret = NoReturn
    /\ success = None
    /\ cursor = [k |-> 0, used_section_ids |-> {}, used_teacher_names |-> {},
                 used_classroom_names |-> {}]
    /\ error = NoError
    /\ check_result = NoCheck
    /\ hist = [op |-> "call_check", call |-> 1, first |-> None]
    /\ first = NoFirst

\* Variant of used_sets: the three sets are made once per call, before the
\* loop over the periods.
used_sets_per_call(slot) ==
    IF cursor.k = 0
    THEN [section_ids |-> {}, teacher_names |-> {}, classroom_names |-> {}]
    ELSE [section_ids |-> cursor.used_section_ids,
          teacher_names |-> cursor.used_teacher_names,
          classroom_names |-> cursor.used_classroom_names]

\* Variant of used_sets: the three sets outlive the call (made once, as a
\* mutable default argument or a module-level set would be).
used_sets_kept(slot) ==
    [section_ids |-> cursor.used_section_ids,
     teacher_names |-> cursor.used_teacher_names,
     classroom_names |-> cursor.used_classroom_names]

\* lines 403-405: new sets at the first entry of each period
used_sets(slot) ==
    IF slot[2] = 1
    THEN [section_ids |-> {}, teacher_names |-> {}, classroom_names |-> {}]
    ELSE [section_ids |-> cursor.used_section_ids,
          teacher_names |-> cursor.used_teacher_names,
          classroom_names |-> cursor.used_classroom_names]

\* lines 407-440 for one entry
CheckSection ==
    /\ pc = "check"
    /\ cursor.k < Len(Slots)
    /\ LET slot == Slots[cursor.k + 1]
           p_id == periods[slot[1]]
           id == assigned_sections[p_id][slot[2]]
           used == used_sets(slot)
           t == assigned_teacher[id]
           c == assigned_classroom[id]
       IN  IF section_id_of(id) \in used.section_ids
           THEN \* line 410
                /\ check_result' =
                       [passed |-> FALSE, kind |-> "Section",
                        period |-> p_id, name |-> section_id_of(id),
                        conflicting_sections |-> <<>>]
                /\ pc' = "check_done"
                /\ UNCHANGED cursor
           ELSE IF t # None /\ t \in used.teacher_names
           THEN \* line 422
                /\ check_result' =
                       [passed |-> FALSE, kind |-> "Teacher",
                        period |-> p_id, name |-> t,
                        conflicting_sections |->
                            conflicting_sections(p_id, assigned_teacher, t)]
                /\ pc' = "check_done"
                /\ UNCHANGED cursor
           ELSE IF c # None /\ c \in used.classroom_names
           THEN \* line 435
                /\ check_result' =
                       [passed |-> FALSE, kind |-> "Classroom",
                        period |-> p_id, name |-> c,
                        conflicting_sections |->
                            conflicting_sections(p_id, assigned_classroom, c)]
                /\ pc' = "check_done"
                /\ UNCHANGED cursor
           ELSE \* lines 414, 427, 440
                /\ cursor' =
                       [k |-> cursor.k + 1,
                        used_section_ids |->
                            used.section_ids \cup {section_id_of(id)},
                        used_teacher_names |->
                            IF t # None THEN used.teacher_names \cup {t}
                            ELSE used.teacher_names,
                        used_classroom_names |->
                            IF c # None THEN used.classroom_names \cup {c}
                            ELSE used.classroom_names]
                /\ UNCHANGED <<check_result, pc>>
    /\ hist' = [hist EXCEPT !.op = "check_section"]
    /\ UNCHANGED <<inputs, first, all_sections, fields, domains, scoreboard, stack,
                   ret, success, error>>

\* line 442: the loops ended without an exception
CheckPassed ==
    /\ pc = "check"
    /\ cursor.k = Len(Slots)
    /\ check_result' = [passed |-> TRUE]
    /\ pc' = "check_done"
    /\ hist' = [hist EXCEPT !.op = "check_passed"]
    /\ UNCHANGED <<inputs, first, all_sections, fields, domains, scoreboard, stack,
                   ret, success, cursor, error>>

\* main.py line 24: check(periods) again, after the call inside
\* run_scheduler.  The sets of the new call are bound by lines 403-405.
CheckAgain ==
    /\ pc = "check_done"
    /\ hist.call = 1
    /\ pc' = "check"
    /\ cursor' = [cursor EXCEPT !.k = 0]
    /\ hist' = [op |-> "call_check", call |-> 2, first |-> check_result]
    /\ UNCHANGED <<inputs, first, all_sections, fields, domains, scoreboard, stack,
                   ret, success, error, check_result>>

NextCheck ==
    \/ CheckSection
    \/ CheckPassed
    \/ CheckAgain

SpecCheck == InitCheck /\ [][NextCheck]_vars

(***************************************************************************)
(* generate_sections on the class lists a caller can hand to it: up to     *)
(* three classes with any number of sections from zero on, names that may  *)
(* repeat, and a name that looks like the section id of another class.     *)
(***************************************************************************)
GeneratedClasses ==
    {Class(n, k, ty) : n \in {"A", "A-1", "B"},
                       k \in 0..(MaxNumSections + 1), ty \in {"r", "g"}}

InitGenerate ==
    /\ classroom_types = <<"r", "g">>
    /\ classrooms = <<Classroom("R1", {"r", "g"})>>
    /\ classes \in UNION {[1..m -> GeneratedClasses] : m \in 0..3}
    /\ teachers = <<Teacher("T1", {"A", "B"}, 1)>>
    /\ periods = PeriodIds(1)
    /\ all_sections = <<>>
    /\ assigned_teacher = <<>>
    /\ assigned_classroom = <<>>
    /\ assigned_sections = [p \in Range(periods) |-> <<>>]
    /\ valid_teachers = <<>>
    /\ valid_rooms = <<>>
    /\ teacher_schedule = <<>>
    /\ room_schedule = <<>>
    /\ teacher_load = <<>>
    /\ pc = "start"
    /\ stack = <<>>
    /\ ret = NoReturn
    /\ success = None
    /\ cursor = NoCursor
    /\ error = NoError
    /\ check_result = NoCheck
    /\ hist = NoHist
    /\ first = NoFirst

\* One call of generate_sections (line 341 of run_scheduler).
SpecGenerate == InitGenerate /\ [][GenerateSections]_vars

(***************************************************************************)
(* solve_recursive, the teacher-only solver (lines 240-277).  Its          *)
(* docstring takes the rooms as assigned and recorded in room_schedule, so *)
(* it is called where the fallback would start its teacher pass: after     *)
(* the period pass and the room pass, with no teacher assigned.  A frame   *)
(* holds section_index, the position ti of the teacher loop, and the       *)
(* mutable state at the entry of its call.                                 *)
(***************************************************************************)
TeacherFrame(section_index) ==
    [section_index |-> section_index, ti |-> 1, at |-> "try",
     entry |-> Snapshot]

\* line 252: the positions of the periods whose list holds the section
periods_with(id) ==
    {i \in 1..Len(periods) :
        \E x \in Range(assigned_sections[periods[i]]) : equal_sections(x, id)}

\* lines 259-261: the positions the teacher loop still reaches and accepts
teachers_left(frame) ==
    LET section == section_of(frame)
        p_id == periods[Min(periods_with(section.section_id))]
    IN  {i \in frame.ti..Len(teachers_of(section)) :
            free_and_under_load(teachers_of(section)[i], p_id)}

\* Variant of clear_teacher: the backtrack leaves the teacher on the section.
clear_teacher_kept(id) == assigned_teacher

\* line 272
clear_teacher(id) == [assigned_teacher EXCEPT ![id] = None]

\* a caller's solve_recursive(ctx) on the state the room pass has left
SolveRecursiveCall ==
    /\ pc = "assign_teachers_to_sections"
    /\ cursor.k = 0
    /\ stack' = <<TeacherFrame(0)>>
    /\ pc' = "solve_recursive"
    /\ hist' = [op |-> "call_solve_recursive"]
    /\ UNCHANGED <<inputs, first, all_sections, fields, domains, scoreboard,
                   ret, success, cursor, error, check_result>>

\* lines 247-248, and the "return True" of line 269 in every frame below
TeacherBaseCase ==
    /\ pc = "solve_recursive"
    /\ Top.at = "try"
    /\ all_placed(Top.section_index)
    /\ stack' = <<>>
    /\ ret' = [value |-> TRUE, section_index |-> Top.section_index,
               entry |-> Top.entry]
    /\ pc' = "solve_recursive_done"
    /\ hist' = [op |-> "teacher_return_true"]
    /\ UNCHANGED <<inputs, first, all_sections, fields, domains, scoreboard,
                   success, cursor, error, check_result>>

\* The call returns False to its caller (lines 255 and 277).
return_false(op) ==
    /\ ret' = [value |-> FALSE, section_index |-> Top.section_index,
               entry |-> Top.entry]
    /\ IF Len(stack) = 1
       THEN /\ stack' = <<>>
            /\ pc' = "solve_recursive_done"
       ELSE /\ stack' = [SubSeq(stack, 1, Len(stack) - 1)
                            EXCEPT ![Len(stack) - 1].at = "undo"]
            /\ UNCHANGED pc
    /\ hist' = [op |-> op]
    /\ UNCHANGED <<inputs, first, all_sections, fields, domains, scoreboard,
                   success, cursor, error, check_result>>

\* lines 252-255: the section stands in no period
NoPeriod ==
    /\ pc = "solve_recursive"
    /\ Top.at = "try"
    /\ ~ all_placed(Top.section_index)
    /\ periods_with(section_of(Top).section_id) = {}
    /\ return_false("no_period")

\* lines 263-268: take the next teacher the loop accepts and recurse
TeacherChoose ==
    /\ pc = "solve_recursive"
    /\ Top.at = "try"
    /\ ~ all_placed(Top.section_index)
    /\ periods_with(section_of(Top).section_id) # {}
    /\ teachers_left(Top) # {}
    /\ LET section == section_of(Top)
           id == section.section_id
           p_id == periods[Min(periods_with(id))]
           i == Min(teachers_left(Top))
           teacher == teachers_of(section)[i]
       IN  /\ assigned_teacher' = [assigned_teacher EXCEPT ![id] = teacher.name]
           /\ teacher_schedule' =
                  [teacher_schedule EXCEPT ![teacher.name][p_id] = id]
           /\ teacher_load' = [teacher_load EXCEPT ![teacher.name] = @ + 1]
           /\ stack' =
                  [stack EXCEPT ![Len(stack)] =
                      [@ EXCEPT !.ti = i, !.at = "recurse"]]
                  \o <<[TeacherFrame(Top.section_index + 1) EXCEPT !.entry =
                          [Snapshot EXCEPT
                              !.teacher_schedule = teacher_schedule',
                              !.teacher_load = teacher_load',
                              !.assigned_teacher = assigned_teacher']]>>
           /\ hist' = [op |-> "teacher_choose", section_id |-> id,
                       p_id |-> p_id, teacher |-> teacher.name]
    /\ UNCHANGED <<inputs, first, all_sections, assigned_classroom,
                   assigned_sections, room_schedule, domains, ret, success,
                   cursor, error, check_result, pc>>

\* line 277: the teacher loop is exhausted
TeacherReturnFalse ==
    /\ pc = "solve_recursive"
    /\ Top.at = "try"
    /\ ~ all_placed(Top.section_index)
    /\ periods_with(section_of(Top).section_id) # {}
    /\ teachers_left(Top) = {}
    /\ return_false("teacher_return_false")

\* lines 272-274, then the loop goes on with the next teacher
TeacherBacktrack ==
    /\ pc = "solve_recursive"
    /\ Top.at = "undo"
    /\ LET section == section_of(Top)
           id == section.section_id
           p_id == periods[Min(periods_with(id))]
           teacher == teachers_of(section)[Top.ti]
       IN  /\ assigned_teacher' = clear_teacher(id)
           /\ teacher_schedule' =
                  [teacher_schedule EXCEPT ![teacher.name][p_id] = None]
           /\ teacher_load' = [teacher_load EXCEPT ![teacher.name] = @ - 1]
           /\ hist' = [op |-> "teacher_backtrack", section_id |-> id]
    /\ stack' = [stack EXCEPT ![Len(stack)] =
                    [@ EXCEPT !.ti = @ + 1, !.at = "try"]]
    /\ UNCHANGED <<inputs, first, all_sections, assigned_classroom,
                   assigned_sections, room_schedule, domains, ret, success,
                   cursor, error, check_result, pc>>

solve_recursive ==
    \/ TeacherBaseCase
    \/ NoPeriod
    \/ TeacherChoose
    \/ TeacherReturnFalse
    \/ TeacherBacktrack

\* A run of run_scheduler at whose teacher phase a caller may run the
\* teacher-only solver in place of the greedy teacher pass.
NextSolveRecursive ==
    \/ Next
    \/ SolveRecursiveCall
    \/ solve_recursive

SpecSolveRecursive == Init /\ [][NextSolveRecursive]_vars

(***************************************************************************)
(* Properties.                                                             *)
(***************************************************************************)
BuilderRaised ==
    pc = "raised" /\ error.kind \in {"NO qualified teachers",
                                     "NO compatible rooms"}

teacher_count(t) ==
    Cardinality({id \in DOMAIN assigned_teacher : assigned_teacher[id] = t})

\* C1 -- No double-booking: in every state of a run (every entry to and
\* return from solve_recursive_full, every step of the greedy passes, the
\* returned schedule) the sections of each period's list have pairwise
\* distinct ids, pairwise distinct non-null teachers and pairwise distinct
\* non-null rooms.
C1_NoDoubleBooking ==
    \A p \in Range(periods) :
        \A i, j \in 1..Len(assigned_sections[p]) :
            i < j =>
                LET a == assigned_sections[p][i]
                    b == assigned_sections[p][j]
                IN  /\ a # b
                    /\ assigned_teacher[a] # None
                           => assigned_teacher[a] # assigned_teacher[b]
                    /\ assigned_classroom[a] # None
                           => assigned_classroom[a] # assigned_classroom[b]

\* A returned schedule in which some period holds two sections that both
\* have a teacher and a room.
C1_Witness ==
    /\ pc = "returned"
    /\ \E p \in Range(periods) :
           \E i, j \in 1..Len(assigned_sections[p]) :
               /\ i < j
               /\ is_fully_assigned(assigned_sections[p][i])
               /\ is_fully_assigned(assigned_sections[p][j])

\* C2 -- Load bound: in every state, for every teacher t the number of
\* sections whose assigned teacher is t is at most t.max_sections.
C2_LoadBound ==
    \A i \in 1..Len(teachers) :
        teacher_count(teachers[i].name) <= teachers[i].max_sections

\* The state right after a swap repair, with the alternate teacher at its
\* maximum load.
C2_Witness ==
    /\ hist.op = "swap"
    /\ \E i \in 1..Len(teachers) :
           /\ teachers[i].name = hist.alt
           /\ teacher_count(hist.alt) = teachers[i].max_sections

\* C3 -- Domain soundness: in every state, a section's assigned teacher is
\* one of its valid_teachers and its assigned room is one of its valid_rooms.
C3_DomainSoundness ==
    \A id \in DOMAIN assigned_teacher :
        /\ assigned_teacher[id] # None =>
               /\ id \in DOMAIN valid_teachers
               /\ assigned_teacher[id] \in Names(valid_teachers[id])
        /\ assigned_classroom[id] # None =>
               /\ id \in DOMAIN valid_rooms
               /\ assigned_classroom[id] \in Names(valid_rooms[id])

\* The state right after a swap repair: the displaced section has the
\* alternate and a room, the blocked section has the freed teacher.
C3_Witness ==
    /\ hist.op = "swap"
    /\ assigned_teacher[hist.cs] = hist.alt
    /\ assigned_teacher[hist.section_id] = hist.qt
    /\ assigned_classroom[hist.cs] # None

\* The slots (period, position) of the period lists that hold section id.
slots_of(id) ==
    {k \in 1..Len(Slots) :
        assigned_sections[periods[Slots[k][1]]][Slots[k][2]] = id}

\* C4 -- Exhaustive solver soundness: when solve_recursive_full(ctx, 0) has
\* returned True, every section has a room and a teacher, is exactly once
\* in exactly one period's list, and room_schedule and teacher_schedule of
\* its room and teacher at that period point to it.
C4_ExhaustiveSoundness ==
    success = "True" =>
        \A id \in SectionIds :
            /\ assigned_teacher[id] # None
            /\ assigned_classroom[id] # None
            /\ Cardinality(slots_of(id)) = 1
            /\ \A k \in slots_of(id) :
                   LET p_id == periods[Slots[k][1]]
                   IN  /\ room_schedule[assigned_classroom[id]][p_id] = id
                       /\ teacher_schedule[assigned_teacher[id]][p_id] = id

\* The solver has just returned True for a school of at least two sections.
C4_Witness ==
    /\ pc = "solved"
    /\ hist.op = "return_true"
    /\ Len(all_sections) >= 2

\* Whether the sections ids[1..n] can all be given a (period, room, teacher)
\* triple from their domains, on top of the occupied (room, period) pairs
\* room_used, the occupied (teacher, period) pairs teacher_used and the
\* loads load.
RECURSIVE can_place(_, _, _, _, _)
can_place(ids, n, room_used, teacher_used, load) ==
    IF n = 0 THEN TRUE
    ELSE \E p \in Range(periods) :
             \E r \in Range(valid_rooms[ids[n]]) :
                 \E t \in Range(valid_teachers[ids[n]]) :
                     /\ <<r.name, p>> \notin room_used
                     /\ <<t.name, p>> \notin teacher_used
                     /\ load[t.name] < t.max_sections
                     /\ can_place(ids, n - 1,
                                  room_used \cup {<<r.name, p>>},
                                  teacher_used \cup {<<t.name, p>>},
                                  [load EXCEPT ![t.name] = @ + 1])

\* A total assignment exists: no room and no teacher twice in one period, no
\* teacher above max_sections.
Feasible ==
    can_place([i \in 1..Len(all_sections) |-> all_sections[i].section_id],
              Len(all_sections), {}, {}, [t \in Names(teachers) |-> 0])

\* C5 -- Exhaustive solver completeness: solve_recursive_full(ctx, 0) returns
\* False only if no total assignment of the sections to (period, room,
\* teacher) triples from their domains exists.
C5_ExhaustiveCompleteness ==
    pc = "failed" => ~ Feasible

\* The top-level call has just returned False although the first section had
\* triples to try and the school has at least two sections.
C5_Witness ==
    /\ pc = "failed"
    /\ Len(all_sections) >= 2
    /\ Triples(all_sections[1]) # {}

Cold ==
    /\ \A t \in DOMAIN teacher_schedule :
           \A p \in DOMAIN teacher_schedule[t] : teacher_schedule[t][p] = None
    /\ \A r \in DOMAIN room_schedule :
           \A p \in DOMAIN room_schedule[r] : room_schedule[r][p] = None
    /\ \A t \in DOMAIN teacher_load : teacher_load[t] = 0
    /\ \A id \in DOMAIN assigned_teacher : assigned_teacher[id] = None
    /\ \A id \in DOMAIN assigned_classroom : assigned_classroom[id] = None
    /\ \A p \in DOMAIN assigned_sections : assigned_sections[p] = <<>>

\* C6 -- Backtrack is an exact undo: when a call of solve_recursive_full has
\* just returned False, teacher_schedule, room_schedule, teacher_load, the
\* sections' teachers and rooms and the period lists (contents and order)
\* equal their values at the entry of that call; after a failed top-level
\* search the state is the cold initial state.
C6_BacktrackExactUndo ==
    /\ hist.op = "return_false" => Snapshot = ret.entry
    /\ pc = "failed" => Cold

\* A call that chose and undid at least one triple has just returned False:
\* a non-top-level call whose section still has an eligible triple.
C6_Witness ==
    /\ hist.op = "return_false"
    /\ pc = "solving"
    /\ ret.section_index >= 1
    /\ \E tr \in Triples(all_sections[ret.section_index + 1]) :
           eligible(all_sections[ret.section_index + 1], tr)

\* The positions (input order) of the sections for which the condition of
\* the claim holds: no teacher whose subjects contain the class name, or no
\* room whose purposes contain the required room type.
lacking_by_subject ==
    {i \in 1..Len(all_sections) :
        \/ ~ \E t \in Range(teachers) :
                 all_sections[i].class_name \in t.subjects
        \/ ~ \E r \in Range(classrooms) :
                 all_sections[i].required_classroom_type \in r.purposes}

\* The same, counting only teachers that may teach at least one section.
lacking ==
    {i \in 1..Len(all_sections) :
        \/ ~ \E t \in Range(teachers) :
                 /\ all_sections[i].class_name \in t.subjects
                 /\ t.max_sections > 0
        \/ ~ \E r \in Range(classrooms) :
                 all_sections[i].required_classroom_type \in r.purposes}

\* C7 as claimed -- build_scheduling_context raises, naming the first such
\* section, if and only if some section has no teacher whose subjects contain
\* its class name or no room whose purposes contain its required room type;
\* otherwise it returns a context.
C7_FailFastBySubject ==
    hist.op = "build_scheduling_context" =>
        /\ BuilderRaised <=> lacking_by_subject # {}
        /\ BuilderRaised =>
               /\ lacking_by_subject # {}
               /\ error.section = all_sections[Min(lacking_by_subject)].section_id
        /\ ~ BuilderRaised => pc = "built"

\* C7 amended -- build_scheduling_context raises, naming the first such
\* section in input order, if and only if some section has no teacher with
\* max_sections > 0 whose subjects contain its class name or no room whose
\* purposes contain its required room type; otherwise it returns a context.
C7_FailFast ==
    hist.op = "build_scheduling_context" =>
        /\ BuilderRaised <=> lacking # {}
        /\ BuilderRaised =>
               /\ lacking # {}
               /\ error.section = all_sections[Min(lacking)].section_id
        /\ ~ BuilderRaised => pc = "built"

\* The builder has raised on the second section of the input: the first one
\* has a teacher and a room, and the only teachers of the subject of the
\* second have max_sections = 0.
C7_Witness ==
    /\ BuilderRaised
    /\ Len(all_sections) >= 2
    /\ error.section = all_sections[2].section_id
    /\ error.kind = "NO qualified teachers"
    /\ 2 \notin lacking_by_subject

\* C8 -- When the Domain Builder raises, nothing has been scheduled:
\* teacher_schedule, room_schedule and teacher_load hold no entries, no
\* section has a teacher or a room, every period list is as it was (empty),
\* and run_scheduler ends with that error, without a result.
C8_RaiseBeforeMutation ==
    BuilderRaised =>
        /\ DOMAIN teacher_schedule = {}
        /\ DOMAIN room_schedule = {}
        /\ DOMAIN teacher_load = {}
        /\ \A id \in SectionIds :
               assigned_teacher[id] = None /\ assigned_classroom[id] = None
        /\ \A p \in Range(periods) : assigned_sections[p] = <<>>
        /\ success = None
        /\ check_result = NoCheck
        /\ ~ ENABLED Next

\* The builder has raised because a section's required room type matches no
\* room, in a school with teachers and periods.
C8_Witness ==
    /\ BuilderRaised
    /\ error.kind = "NO compatible rooms"
    /\ Len(periods) >= 1
    /\ Len(teachers) >= 1

\* C9 -- The run always returns a schedule: the only exception that leaves
\* run_scheduler is the one of the Domain Builder, also for an empty period
\* list.
C9_OnlyBuilderRaises ==
    pc = "raised" => BuilderRaised

\* The input of demo_run.py.
IsDemo ==
    /\ classroom_types = <<"r">>
    /\ classrooms = <<Classroom("R1", {"r"})>>
    /\ classes = DemoClasses
    /\ teachers = DemoTeachers(1, 1, 1)
    /\ periods = <<"P1">>

DemoTeachersFit ==
    /\ assigned_teacher["A-1"] \in {"T1", "T3"}
    /\ assigned_teacher["B-1"] = "T2"
    /\ assigned_teacher["C-1"] \in {"T1", "T3"}
    /\ assigned_teacher["C-1"] # assigned_teacher["A-1"]
    /\ Range(assigned_sections["P1"]) = {"A-1", "B-1", "C-1"}
    /\ Len(assigned_sections["P1"]) = 3

\* C10 as claimed -- on the demo_run input the exhaustive solver succeeds
\* and schedules all three sections (room and teacher), one of {T1,T3} on A,
\* T2 on B, the other of {T1,T3} on C, and the validator passes.
C10_DemoExhaustiveSucceeds ==
    (IsDemo /\ pc = "returned") =>
        /\ success = "True"
        /\ \A id \in SectionIds : is_fully_assigned(id)
        /\ DemoTeachersFit
        /\ check_result.passed

\* C10 amended -- on the demo_run input the exhaustive solver fails (one
\* room and one period hold one section); the greedy fallback puts all three
\* sections in the period with T3 on A, T2 on B and T1 on C, no teacher
\* repeated; only B has a room (R1); the validator passes.
C10_DemoFallback ==
    (IsDemo /\ pc = "returned") =>
        /\ success = "False"
        /\ DemoTeachersFit
        /\ assigned_teacher["A-1"] = "T3"
        /\ assigned_teacher["C-1"] = "T1"
        /\ assigned_classroom =
               [id \in SectionIds |-> IF id = "B-1" THEN "R1" ELSE None]
        /\ check_result.passed

\* run_scheduler has returned on the demo_run input.
C10_Witness ==
    IsDemo /\ pc = "returned"

\* Some room type is required by more sections than there are
\* (period, room supporting the type) pairs.
OverCapacity ==
    \E i \in 1..Len(all_sections) :
        LET ty == all_sections[i].required_classroom_type
        IN  Len(sections_requiring(ty)) >
                Len(periods) * Len(SelectSeq(classrooms,
                                     LAMBDA r : ty \in r.purposes))

Finished == pc \in {"returned", "raised"}

\* C11 -- Over-capacity scenario: whenever the sections requiring some room
\* type outnumber (periods) x (rooms supporting the type),
\* solve_recursive_full returns False, the greedy fallback then leaves at
\* least one section with a null room, and check on the resulting periods
\* reports no double-booking.  Stated for the runs in which the Domain
\* Builder returned a context, so that the solver is called at all.
C11_OverCapacityScenario ==
    (OverCapacity /\ pc \notin {"start", "generated", "built", "prioritized",
                                "solving"}
                  /\ ~ BuilderRaised) =>
        /\ success = "False"
        /\ Finished =>
               /\ pc = "returned"
               /\ \E id \in SectionIds : assigned_classroom[id] = None
               /\ check_result.passed

\* Some period's list holds two entries with the same section id, the same
\* non-null teacher or the same non-null room.
Collision ==
    \E p \in Range(periods) :
        \E i, j \in 1..Len(assigned_sections[p]) :
            /\ i < j
            /\ LET a == assigned_sections[p][i]
                   b == assigned_sections[p][j]
               IN  \/ a = b
                   \/ assigned_teacher[a] # None
                          /\ assigned_teacher[a] = assigned_teacher[b]
                   \/ assigned_classroom[a] # None
                          /\ assigned_classroom[a] = assigned_classroom[b]

\* C12 -- Validator decision: check(periods) fails if and only if some
\* period's list contains two entries with the same section id, the same
\* non-null teacher name or the same non-null room name; null teachers and
\* null rooms never count as a collision, so every violation of the
\* per-period invariant, whoever produced the schedule, is detected.
C12_ValidatorDecision ==
    pc = "check_done" => (~ check_result.passed <=> Collision)

\* check has passed a schedule in which one period holds two sections that
\* both have neither teacher nor room, and another period holds a section
\* that has both.
C12_Witness ==
    /\ pc = "check_done"
    /\ check_result.passed
    /\ \E p, q \in Range(periods) :
           /\ p # q
           /\ Len(assigned_sections[p]) = 2
           /\ \A i \in 1..2 :
                  /\ assigned_teacher[assigned_sections[p][i]] = None
                  /\ assigned_classroom[assigned_sections[p][i]] = None
           /\ \E b \in Range(assigned_sections[q]) : is_fully_assigned(b)

\* C13 -- Idempotent validation: no step of check changes the period lists,
\* the sections' fields, the teachers or the rooms, and a second call on the
\* same schedule ends with the outcome of the first: the same pass or fail
\* and the same reported conflict.
C13_IdempotentValidation ==
    [][/\ UNCHANGED <<inputs, first, all_sections, fields>>
       /\ (pc' = "check_done" /\ hist'.call = 2)
              => check_result' = hist'.first]_vars

\* The second call has ended, reporting a teacher conflict, on a schedule
\* that also holds a room conflict further on.
C13_Witness ==
    /\ pc = "check_done"
    /\ hist.call = 2
    /\ ~ check_result.passed
    /\ check_result.kind = "Teacher"
    /\ \E p \in Range(periods) :
           \E i, j \in 1..Len(assigned_sections[p]) :
               /\ i < j
               /\ assigned_classroom[assigned_sections[p][i]] # None
               /\ assigned_classroom[assigned_sections[p][i]]
                      = assigned_classroom[assigned_sections[p][j]]

\* C14 -- Swap correctness: immediately after a swap repair in
\* assign_teachers_to_sections the conflicting section cs, which qt taught
\* in period p, has the alternate teacher alt (never null), the blocked
\* section has teacher qt, teacher_schedule[qt][p] is the blocked section
\* and teacher_schedule[alt][p] is cs, teacher_load[qt] equals its value
\* before the swap, and teacher_load[alt] is exactly one higher than before.
C14_SwapCorrectness ==
    hist.op = "swap" =>
        /\ hist.before.assigned_teacher[hist.cs] = hist.qt
        /\ hist.before.assigned_teacher[hist.section_id] = None
        /\ hist.before.teacher_schedule[hist.alt][hist.p_id] = None
        /\ hist.alt # None
        /\ hist.alt # hist.qt
        /\ assigned_teacher[hist.cs] = hist.alt
        /\ assigned_teacher[hist.section_id] = hist.qt
        /\ teacher_schedule[hist.qt][hist.p_id] = hist.section_id
        /\ teacher_schedule[hist.alt][hist.p_id] = hist.cs
        /\ teacher_load[hist.qt] = hist.before.teacher_load[hist.qt]
        /\ teacher_load[hist.alt] = hist.before.teacher_load[hist.alt] + 1
        /\ \A t \in DOMAIN teacher_load :
               t \notin {hist.qt, hist.alt}
                   => teacher_load[t] = hist.before.teacher_load[t]

\* The state right after a swap repair in which qt was and stays at its
\* maximum load and the displaced section keeps its room.
C14_Witness ==
    /\ hist.op = "swap"
    /\ assigned_classroom[hist.cs] # None
    /\ \E i \in 1..Len(teachers) :
           /\ teachers[i].name = hist.qt
           /\ hist.before.teacher_load[hist.qt] = teachers[i].max_sections
           /\ teacher_load[hist.qt] = teachers[i].max_sections

\* C15 -- Fallback determinism: two executions of the greedy fallback
\* (assign_sections_to_periods, assign_classrooms_to_sections,
\* assign_teachers_to_sections) started from equal cold states with the same
\* inputs in the same order end with identical period lists, identical room
\* and teacher per section, and identical scoreboards.
C15_FallbackDeterminism ==
    (pc = "fallback_done" /\ first.op = "fallback") =>
        Snapshot = first.outcome

\* The second execution has ended; it gave teachers to two sections of one
\* period and left a section without a room.
C15_Witness ==
    /\ pc = "fallback_done"
    /\ first.op = "fallback"
    /\ \E id \in SectionIds : assigned_classroom[id] = None
    /\ \E p \in Range(periods) :
           \E i, j \in 1..Len(assigned_sections[p]) :
               /\ i < j
               /\ assigned_teacher[assigned_sections[p][i]] # None
               /\ assigned_teacher[assigned_sections[p][j]] # None

\* The sort key of the claim, from the domains: (number of valid teachers,
\* number of valid rooms).
sort_key(section) ==
    <<Len(valid_teachers[section.section_id]),
      Len(valid_rooms[section.section_id])>>

\* The position of a section in the list handed to prioritize_sections.
input_position(section) ==
    CHOOSE i \in 1..Len(generate_sections(classes)) :
        generate_sections(classes)[i] = section

\* C16 -- Prioritizer: prioritize_sections leaves ctx.all_sections a
\* permutation of its input, sorted by ascending (number of valid teachers,
\* number of valid rooms); two sections with equal keys keep their input
\* relative order.
C16_Prioritizer ==
    hist.op = "prioritize_sections" =>
        /\ Len(all_sections) = Len(generate_sections(classes))
        /\ Range(all_sections) = Range(generate_sections(classes))
        /\ \A i, j \in 1..Len(all_sections) :
               i < j =>
                   /\ ~ tuple_less(sort_key(all_sections[j]),
                                   sort_key(all_sections[i]))
                   /\ sort_key(all_sections[i]) = sort_key(all_sections[j])
                          => input_position(all_sections[i])
                                 < input_position(all_sections[j])

\* prioritize_sections has changed the order of the list and two sections
\* of the result have equal keys.
C16_Witness ==
    /\ hist.op = "prioritize_sections"
    /\ all_sections # generate_sections(classes)
    /\ \E i, j \in 1..Len(all_sections) :
           /\ i < j
           /\ sort_key(all_sections[i]) = sort_key(all_sections[j])

\* C17 -- Run independence: a second call of run_scheduler with the same
\* classrooms, classes, teachers and periods does not depend on the first:
\* when it returns, the period lists contain only the second call's
\* sections, and the schedule (order of the returned sections, period lists,
\* teacher and room of every section, outcome of check) is that of the first
\* call.
C17_RunIndependence ==
    (pc = "returned" /\ first.op = "run_scheduler") =>
        /\ \A p \in Range(periods) :
               \A i \in 1..Len(assigned_sections[p]) :
                   assigned_sections[p][i] \in SectionIds
        /\ all_sections = first.outcome.all_sections
        /\ assigned_sections = first.outcome.assigned_sections
        /\ \A id \in SectionIds :
               /\ assigned_teacher[id] = first.outcome.assigned_teacher[id]
               /\ assigned_classroom[id]
                      = first.outcome.assigned_classroom[id]
        /\ check_result = first.outcome.check_result

\* C18 -- Side effects of run_scheduler on the caller's objects are
\* confined to the periods' section lists (and the fields of the sections it
\* creates): no step of a run changes the classrooms, the classes, the
\* room-type priority list, a teacher's name, subjects or max_sections, or
\* the list of periods and their ids.
C18_FrameOfRun ==
    [][/\ classrooms' = classrooms
       /\ classes' = classes
       /\ classroom_types' = classroom_types
       /\ teachers' = teachers
       /\ periods' = periods]_vars

\* run_scheduler has returned from the fallback path, which emptied and
\* refilled the period lists and gave a section a teacher and a room.
C18_Witness ==
    /\ pc = "returned"
    /\ success = "False"
    /\ \E p \in Range(periods) : Len(assigned_sections[p]) >= 2
    /\ \E id \in SectionIds : is_fully_assigned(id)

GreedyPasses ==
    {"assign_sections_to_periods", "assign_classrooms_to_sections",
     "assign_teachers_to_sections"}

\* The order of the phases of a run, as a condition on every step.
PhaseOrder ==
    /\ pc' = "built" => pc = "generated"
    /\ pc' = "prioritized" => pc = "built"
    /\ pc' = "solving" => pc \in {"prioritized", "solving"}
    /\ pc' \in {"solved", "failed"} => pc = "solving"
    \* the greedy passes run if and only if the solver returned False ...
    /\ pc = "failed" => pc' = "assign_sections_to_periods"
    /\ pc = "solved" => pc' \notin GreedyPasses
    /\ (pc' = "assign_sections_to_periods" /\ pc # pc')
           => (pc = "failed" /\ success = "False")
    \* ... after the reset, periods first, then rooms, then teachers
    /\ (pc' = "assign_sections_to_periods" /\ pc # pc') => Cold'
    /\ (pc' = "assign_classrooms_to_sections" /\ pc # pc')
           => pc = "assign_sections_to_periods"
    /\ (pc' = "assign_teachers_to_sections" /\ pc # pc')
           => pc = "assign_classrooms_to_sections"
    /\ pc' = "fallback_done" => pc = "assign_teachers_to_sections"

\* The validator runs exactly once, after everything else, on both paths.
ValidatorLast ==
    /\ pc' = "returned" => (pc \in {"solved", "fallback_done"}
                              /\ hist'.op = "return")
    /\ pc # "returned"
    /\ pc' = "raised" => pc = "generated"

\* C19 -- Control-flow order of a run: Domain Builder, then Prioritizer, then
\* exhaustive solver; the greedy passes (periods, then rooms, then teachers)
\* run if and only if the solver returned False, and only after all period
\* lists, section assignments, occupancy maps and loads have been reset; the
\* validator runs exactly once, after everything else, on both paths (a run
\* past the Domain Builder ends in no other way).
C19_ControlFlowOrder ==
    [][PhaseOrder /\ ValidatorLast]_vars

\* The guard of the claim for a triple of positions (period, room, teacher)
\* of a section, read from the scoreboard of the current state.
Guard(section, tr) ==
    LET p_id == periods[tr[1]]
        room == valid_rooms[section.section_id][tr[2]]
        teacher == valid_teachers[section.section_id][tr[3]]
    IN  /\ room_schedule[room.name][p_id] = None
        /\ teacher_schedule[teacher.name][p_id] = None
        /\ teacher_load[teacher.name] < teacher.max_sections

\* The triples of a section that the loops reach from position pos on.
from_position(section, pos) ==
    {tr \in Triples(section) : triple_le(pos, tr)}

\* C20 -- Guard of the exhaustive solver: a call commits a triple (period,
\* room, teacher) exactly when, in the current state, the room is free in
\* the period, the teacher is free in the period and the teacher's load is
\* below max_sections.  The triple committed is the first such triple from
\* the position of the loops on (no eligible triple is skipped, no
\* ineligible one committed), and the call returns False only when no such
\* triple is left.
C20_SolverGuard ==
    [][(pc = "solving" /\ hist'.op \in {"choose", "return_false"}) =>
          LET section == section_of(Top)
              pos == <<Top.pi, Top.ri, Top.ti>>
              chosen == <<stack'[Len(stack)].pi, stack'[Len(stack)].ri,
                          stack'[Len(stack)].ti>>
          IN  IF hist'.op = "choose"
              THEN /\ chosen \in from_position(section, pos)
                   /\ Guard(section, chosen)
                   /\ \A tr \in from_position(section, pos) :
                          (tr # chosen /\ triple_le(tr, chosen))
                              => ~ Guard(section, tr)
                   /\ hist'.section_id = section.section_id
                   /\ hist'.p_id = periods[chosen[1]]
                   /\ hist'.room
                          = valid_rooms[section.section_id][chosen[2]].name
                   /\ hist'.teacher
                          = valid_teachers[section.section_id][chosen[3]].name
              ELSE \A tr \in from_position(section, pos) :
                       ~ Guard(section, tr)]_vars

\* A call has just committed a triple in the second period, with a room and
\* a teacher that are both taken in the first.
C20_Witness ==
    /\ hist.op = "choose"
    /\ Len(periods) = 2
    /\ hist.p_id = periods[2]
    /\ room_schedule[hist.room][periods[1]] # None
    /\ teacher_schedule[hist.teacher][periods[1]] # None

\* The positions (period in periods, room in valid_rooms, teacher in
\* valid_teachers) of the triple that the section with the given id holds.
placed_triple(id) ==
    <<CHOOSE i \in 1..Len(periods) :
          id \in Range(assigned_sections[periods[i]]),
      CHOOSE i \in 1..Len(valid_rooms[id]) :
          valid_rooms[id][i].name = assigned_classroom[id],
      CHOOSE i \in 1..Len(valid_teachers[id]) :
          valid_teachers[id][i].name = assigned_teacher[id]>>

\* The total assignment a state holds: one triple per section, in
\* prioritized order.
placed == [k \in 1..Len(all_sections) |->
              placed_triple(all_sections[k].section_id)]

lex_less(a, b) ==
    \/ a[1] < b[1]
    \/ a[1] = b[1] /\ a[2] < b[2]
    \/ a[1] = b[1] /\ a[2] = b[2] /\ a[3] < b[3]

triples_of(k) ==
    LET id == all_sections[k].section_id
    IN  (1..Len(periods)) \X (1..Len(valid_rooms[id]))
                          \X (1..Len(valid_teachers[id]))

room_at(k, tr) == valid_rooms[all_sections[k].section_id][tr[2]]

teacher_at(k, tr) == valid_teachers[all_sections[k].section_id][tr[3]]

\* What the first k sections of the assignment a occupy.
rooms_taken(a, k) ==
    {<<room_at(i, a[i]).name, periods[a[i][1]]>> : i \in 1..k}

teachers_taken(a, k) ==
    {<<teacher_at(i, a[i]).name, periods[a[i][1]]>> : i \in 1..k}

load_of(a, k) ==
    [t \in Names(teachers) |->
        Cardinality({i \in 1..k : teacher_at(i, a[i]).name = t})]

\* Triple tr is compatible, for section k, with the first k - 1 sections of a.
fits(a, k, tr) ==
    /\ <<room_at(k, tr).name, periods[tr[1]]>> \notin rooms_taken(a, k - 1)
    /\ <<teacher_at(k, tr).name, periods[tr[1]]>>
           \notin teachers_taken(a, k - 1)
    /\ load_of(a, k - 1)[teacher_at(k, tr).name]
           < teacher_at(k, tr).max_sections

\* Some feasible total assignment agrees with a on the first k - 1 sections
\* and gives tr to section k.
completable(a, k, tr) ==
    /\ fits(a, k, tr)
    /\ LET n == Len(all_sections)
       IN  can_place([i \in 1..(n - k) |-> all_sections[k + i].section_id],
                     n - k,
                     rooms_taken(a, k - 1)
                         \cup {<<room_at(k, tr).name, periods[tr[1]]>>},
                     teachers_taken(a, k - 1)
                         \cup {<<teacher_at(k, tr).name, periods[tr[1]]>>},
                     [load_of(a, k - 1) EXCEPT
                         ![teacher_at(k, tr).name] = @ + 1])

\* a is feasible and no feasible total assignment is lexicographically
\* smaller.
LexFirstFeasible(a) ==
    /\ \A k \in 1..Len(a) : fits(a, k, a[k])
    /\ \A k \in 1..Len(a) :
           \A tr \in triples_of(k) :
               lex_less(tr, a[k]) => ~ completable(a, k, tr)

\* C21 -- First feasible solution wins: when solve_recursive_full has
\* returned True, the assignment it leaves is the lexicographically first
\* feasible total assignment, comparing sections in prioritized order and,
\* per section, triples by (period position in the caller's list, room
\* position in valid_rooms, teacher position in valid_teachers); no search
\* step happens after the base case is reached: the only step that follows
\* is the validation and return of run_scheduler, which changes no
\* assignment.
C21_FirstFeasibleWins ==
    [][pc = "solved" =>
          /\ LexFirstFeasible(placed)
          /\ hist'.op = "return"
          /\ UNCHANGED <<all_sections, fields, scoreboard>>]_vars

\* The solver has returned True after giving up the first triple of the
\* first section: that section holds a later triple.
C21_Witness ==
    /\ pc = "solved"
    /\ Len(all_sections) >= 2
    /\ lex_less(<<1, 1, 1>>, placed[1])

\* The number of periods in which teacher t is occupied.
occupied_periods(t) ==
    Cardinality({p \in DOMAIN teacher_schedule[t] :
                    teacher_schedule[t][p] # None})

\* C22 -- Scoreboard load invariant: in every state between two steps of
\* either solver path (the exhaustive search and the greedy fallback), for
\* every teacher t, teacher_load[t] equals the number of periods p for which
\* teacher_schedule[t][p] is non-empty.
C22_ScoreboardLoad ==
    /\ DOMAIN teacher_load = DOMAIN teacher_schedule
    /\ \A t \in DOMAIN teacher_load : teacher_load[t] = occupied_periods(t)

\* The search has just undone a triple while another section stays placed:
\* some teacher keeps a load of at least one.
C22_Witness ==
    /\ hist.op = "backtrack"
    /\ \E t \in DOMAIN teacher_load : teacher_load[t] >= 1

\* list is exactly the elements of source at the positions pos, in the
\* order of source.
is_sublist_at(list, source, pos) ==
    /\ Len(list) = Cardinality(pos)
    /\ \A j \in 1..Len(list) :
           \E i \in pos :
               /\ Cardinality({k \in pos : k <= i}) = j
               /\ list[j] = source[i]

teaches(i, section) == section.class_name \in teachers[i].subjects

supports(i, section) ==
    section.required_classroom_type \in classrooms[i].purposes

\* The domains as the claim describes them.
DomainsBySubject ==
    /\ DOMAIN valid_teachers = SectionIds
    /\ DOMAIN valid_rooms = SectionIds
    /\ \A s \in Range(all_sections) :
           /\ is_sublist_at(valid_teachers[s.section_id], teachers,
                            {i \in 1..Len(teachers) : teaches(i, s)})
           /\ is_sublist_at(valid_rooms[s.section_id], classrooms,
                            {i \in 1..Len(classrooms) : supports(i, s)})

\* The same, with the teachers that may teach at least one section.
DomainsByLoad ==
    /\ DOMAIN valid_teachers = SectionIds
    /\ DOMAIN valid_rooms = SectionIds
    /\ \A s \in Range(all_sections) :
           /\ is_sublist_at(valid_teachers[s.section_id], teachers,
                            {i \in 1..Len(teachers) :
                                /\ teaches(i, s)
                                /\ teachers[i].max_sections > 0})
           /\ is_sublist_at(valid_rooms[s.section_id], classrooms,
                            {i \in 1..Len(classrooms) : supports(i, s)})

DomainsBuilt == pc \notin {"start", "generated", "raised"}

\* C23 as claimed -- Precomputed domains: after build_scheduling_context,
\* valid_teachers[s] is exactly the list, in source list order, of the
\* teachers whose subjects contain s's class name, and valid_rooms[s] is
\* exactly the list, in source list order, of the rooms whose purposes
\* contain s's required room type; no later step modifies the domains.
C23_DomainsBySubject ==
    [][DomainsBuilt => (DomainsBySubject /\ UNCHANGED domains)]_vars

\* C23 amended -- Precomputed domains: after build_scheduling_context,
\* valid_teachers[s] is exactly the list, in source list order, of the
\* teachers with max_sections > 0 whose subjects contain s's class name, and
\* valid_rooms[s] is exactly the list, in source list order, of the rooms
\* whose purposes contain s's required room type; no later step modifies the
\* domains.
C23_PrecomputedDomains ==
    [][DomainsBuilt => (DomainsByLoad /\ UNCHANGED domains)]_vars

\* The builder has returned a context in which the first teacher, whose
\* subjects contain the class name of a section, is not in the section's
\* domain because its max_sections is 0, and some section has two rooms.
C23_Witness ==
    /\ pc = "built"
    /\ teachers[1].max_sections = 0
    /\ \E s \in Range(all_sections) :
           /\ teaches(1, s)
           /\ valid_teachers[s.section_id] = <<teachers[2]>>
    /\ \E s \in Range(all_sections) : Len(valid_rooms[s.section_id]) = 2

\* C24 -- Scoreboard initialisation: when build_scheduling_context returns,
\* teacher_schedule has an empty entry for every (teacher, period) pair,
\* room_schedule has an empty entry for every (room, period) pair, and
\* teacher_load is 0 for every teacher.
C24_ScoreboardInitialisation ==
    (hist.op = "build_scheduling_context" /\ pc = "built") =>
        /\ DOMAIN teacher_schedule = {teachers[i].name : i \in 1..Len(teachers)}
        /\ DOMAIN room_schedule
               = {classrooms[i].name : i \in 1..Len(classrooms)}
        /\ DOMAIN teacher_load = DOMAIN teacher_schedule
        /\ \A t \in DOMAIN teacher_schedule :
               /\ DOMAIN teacher_schedule[t]
                      = {periods[i] : i \in 1..Len(periods)}
               /\ \A p \in DOMAIN teacher_schedule[t] :
                      teacher_schedule[t][p] = None
               /\ teacher_load[t] = 0
        /\ \A r \in DOMAIN room_schedule :
               /\ DOMAIN room_schedule[r]
                      = {periods[i] : i \in 1..Len(periods)}
               /\ \A p \in DOMAIN room_schedule[r] :
                      room_schedule[r][p] = None

\* The builder has just returned for a school with two rooms, two periods
\* and at least two sections.
C24_Witness ==
    /\ hist.op = "build_scheduling_context"
    /\ pc = "built"
    /\ Len(classrooms) = 2
    /\ Len(periods) = 2
    /\ Len(all_sections) >= 2

\* The (label position, section position) pairs of the sections that
\* require a label of the priority list.
labelled ==
    {pr \in (1..Len(classroom_types)) \X (1..Len(all_sections)) :
        all_sections[pr[2]].required_classroom_type = classroom_types[pr[1]]}

pair_less(a, b) == a[1] < b[1] \/ (a[1] = b[1] /\ a[2] < b[2])

\* The k-th section (k from 0) in the order: labels in the caller's order,
\* per label the sections requiring it in list order.
kth_section(k) ==
    LET pr == CHOOSE x \in labelled :
                  Cardinality({y \in labelled : pair_less(y, x)}) = k
    IN  all_sections[pr[2]].section_id

InFallback ==
    /\ success = "False"
    /\ pc \in GreedyPasses \cup {"fallback_done", "returned"}

\* C25 -- Fallback period assignment is one shared round-robin: iterating
\* the room-type labels in the caller's order and, per label, the sections
\* requiring it in list order, the k-th section appended overall (k from 0,
\* counted across all labels without reset) goes to
\* periods[k mod number of periods], behind the sections appended to that
\* period before it; the lists hold nothing else.
C25_SharedRoundRobin ==
    InFallback =>
        LET n == Len(periods)
            appended == Len(Slots)
        IN  /\ appended <= Cardinality(labelled)
            /\ pc # "assign_sections_to_periods"
                   => appended = Cardinality(labelled)
            /\ \A j \in 1..n :
                   Len(assigned_sections[periods[j]])
                       = Cardinality({k \in 0..(appended - 1) :
                                         k % n = j - 1})
            /\ \A k \in 0..(appended - 1) :
                   assigned_sections[periods[(k % n) + 1]][(k \div n) + 1]
                       = kth_section(k)

\* The period pass has ended for two periods and two labels: the only
\* section of the first label is in the first period and the first section
\* of the second label in the second period.
C25_Witness ==
    /\ InFallback
    /\ pc = "assign_classrooms_to_sections"
    /\ Len(periods) = 2
    /\ Len(classroom_types) = 2
    /\ \E a, b \in Range(all_sections) :
           /\ a.required_classroom_type = classroom_types[1]
           /\ b.required_classroom_type = classroom_types[2]
           /\ assigned_sections[periods[1]] = <<a.section_id>>
           /\ assigned_sections[periods[2]] = <<b.section_id>>

\* C26 -- Even spread: after assign_sections_to_periods on empty periods
\* (and after each of its appends), the section counts of any two periods
\* differ by at most one, and earlier periods never hold fewer sections than
\* later ones.
C26_EvenSpread ==
    InFallback =>
        \A i, j \in 1..Len(periods) :
            i < j =>
                /\ Len(assigned_sections[periods[i]])
                       >= Len(assigned_sections[periods[j]])
                /\ Len(assigned_sections[periods[i]])
                       - Len(assigned_sections[periods[j]]) <= 1

\* The period pass has ended with two sections in the first period and one
\* in the second.
C26_Witness ==
    /\ InFallback
    /\ pc = "assign_classrooms_to_sections"
    /\ Len(periods) = 2
    /\ Len(assigned_sections[periods[1]]) = 2
    /\ Len(assigned_sections[periods[2]]) = 1

\* C27 -- Fallback room assignment matches the label-major scan: when
\* assign_classrooms_to_sections has returned, the room of every section of
\* every period is the room that the label-major scan gives it (labels in
\* priority order, then the rooms not yet used in the period in list order,
\* each to the first still-roomless section of the period requiring the
\* label), and in both a room is given to at most one section per period.
C27_RoomPassMatchesLabelMajor ==
    (InFallback /\ pc \notin {"assign_sections_to_periods",
                              "assign_classrooms_to_sections"}) =>
        \A p \in Range(periods) :
            LET list == assigned_sections[p]
                scan == label_major_rooms(list)
            IN  /\ \A id \in Range(list) : assigned_classroom[id] = scan[id]
                /\ \A i, j \in 1..Len(list) :
                       (i < j /\ scan[list[i]] # None)
                           => scan[list[i]] # scan[list[j]]
                /\ \A i, j \in 1..Len(list) :
                       (i < j /\ assigned_classroom[list[i]] # None)
                           => assigned_classroom[list[i]]
                                  # assigned_classroom[list[j]]

\* The room pass has ended with a period whose first section took the only
\* room that the second section could use, and another section that had
\* the choice of two rooms.
C27_Witness ==
    /\ InFallback
    /\ pc = "assign_teachers_to_sections"
    /\ \E p \in Range(periods) :
           /\ Len(assigned_sections[p]) >= 2
           /\ assigned_classroom[assigned_sections[p][1]] # None
           /\ assigned_classroom[assigned_sections[p][2]] = None
    /\ \E id \in SectionIds :
           /\ Len(valid_rooms[id]) = 2
           /\ assigned_classroom[id] # None

\* The teacher pass handles one section of one period in this step.
TeacherStep ==
    /\ pc = "assign_teachers_to_sections"
    /\ hist'.op \in {"preassigned", "direct", "swap", "unassigned"}

\* The section that the pass reaches after `done` sections: period by
\* period, each period's list in order.
reached(done) ==
    LET before(pi) ==
            Cardinality({sl \in Range(Slots) : sl[1] < pi})
        sl == CHOOSE x \in Range(Slots) : before(x[1]) + x[2] = done + 1
    IN  [p_id |-> periods[sl[1]],
         section_id |-> assigned_sections[periods[sl[1]]][sl[2]]]

\* Positions in the section's valid_teachers of the teachers that are free
\* in the period and under their maximum load, in the current state.
free_under_load(id, p_id) ==
    {i \in 1..Len(valid_teachers[id]) :
        /\ teacher_schedule[valid_teachers[id][i].name][p_id] = None
        /\ teacher_load[valid_teachers[id][i].name]
               < valid_teachers[id][i].max_sections}

\* C28 -- Fallback direct pass: the sections are processed period by period
\* in the order of each period's list; when a teacherless section of period
\* p is processed, it is given the first teacher in its valid_teachers order
\* for whom teacher_schedule[t][p] is empty and teacher_load[t] <
\* t.max_sections at that moment, if any exists (that teacher then holds the
\* slot and one more section, and nothing else changes).
C28_DirectPass ==
    [][TeacherStep =>
          LET now == reached(cursor.k)
              id == now.section_id
              p_id == now.p_id
              able == free_under_load(id, p_id)
          IN  /\ hist'.section_id = id
              /\ hist'.p_id = p_id
              /\ cursor'.k = cursor.k + 1
              /\ (assigned_teacher[id] = None /\ able # {}) =>
                     LET t == valid_teachers[id]
                                  [CHOOSE i \in able : \A j \in able : i <= j]
                     IN  /\ hist'.op = "direct"
                         /\ assigned_teacher' =
                                [assigned_teacher EXCEPT ![id] = t.name]
                         /\ teacher_schedule' =
                                [teacher_schedule EXCEPT ![t.name][p_id] = id]
                         /\ teacher_load' =
                                [teacher_load EXCEPT ![t.name] = @ + 1]
              /\ hist'.op = "direct" => able # {}]_vars

\* The direct pass has just given a section of the second period a teacher
\* that is not the first of its valid_teachers, the first being busy in that
\* period or at its maximum load.
C28_Witness ==
    /\ hist.op = "direct"
    /\ Len(periods) = 2
    /\ hist.p_id = periods[2]
    /\ Len(valid_teachers[hist.section_id]) = 2
    /\ hist.teacher = valid_teachers[hist.section_id][2].name

\* The pairs (position of qt in the section's valid_teachers, position of
\* alt in the valid_teachers of qt's conflicting section) that the claim
\* admits for a swap, read from the scoreboard sb.
swap_pairs(id, p_id, sb) ==
    {pr \in (1..Len(valid_teachers[id])) \X (1..Len(teachers)) :
        LET qt == valid_teachers[id][pr[1]]
            cs == sb.teacher_schedule[qt.name][p_id]
        IN  /\ cs # None
            /\ pr[2] <= Len(valid_teachers[cs])
            /\ LET alt == valid_teachers[cs][pr[2]]
               IN  /\ alt.name # qt.name
                   /\ sb.teacher_schedule[alt.name][p_id] = None
                   /\ sb.teacher_load[alt.name] < alt.max_sections}

first_pair(pairs) ==
    CHOOSE pr \in pairs : \A o \in pairs : pr = o \/ pair_less(pr, o)

\* C29 -- Swap precondition and choice: a swap is made only for a section
\* that got no teacher in the direct step (it had none and no qualified
\* teacher was free in p and under load); among the pairs (qt, alt), qt a
\* qualified teacher of the section busy in period p, in domain order, and
\* alt a qualified teacher of qt's conflicting section, in domain order,
\* with alt different from qt, free in p and teacher_load[alt] <
\* alt.max_sections, the first pair is taken whenever one exists, and no
\* other pair is applied.
C29_SwapChoice ==
    [][TeacherStep =>
          LET now == reached(cursor.k)
              id == now.section_id
              p_id == now.p_id
              pairs == swap_pairs(id, p_id, Snapshot)
          IN  /\ hist'.op = "swap" <=>
                     /\ assigned_teacher[id] = None
                     /\ free_under_load(id, p_id) = {}
                     /\ pairs # {}
              /\ hist'.op = "swap" =>
                     LET pr == first_pair(pairs)
                         qt == valid_teachers[id][pr[1]]
                         cs == teacher_schedule[qt.name][p_id]
                         alt == valid_teachers[cs][pr[2]]
                     IN  /\ hist'.qt = qt.name
                         /\ hist'.cs = cs
                         /\ hist'.alt = alt.name
                         /\ assigned_teacher' =
                                [assigned_teacher EXCEPT ![cs] = alt.name,
                                                         ![id] = qt.name]
                         /\ teacher_schedule' =
                                [teacher_schedule EXCEPT
                                    ![alt.name][p_id] = cs,
                                    ![qt.name][p_id] = id]]_vars

\* A swap has just been made for a section that had the choice: before it,
\* pairs with two different qt were admitted.
C29_Witness ==
    /\ hist.op = "swap"
    /\ \E a, b \in swap_pairs(hist.section_id, hist.p_id, hist.before) :
           a[1] # b[1]

\* The sections other than id whose teacher this step changes.
teacher_changed_besides(id) ==
    {x \in DOMAIN assigned_teacher :
        x # id /\ assigned_teacher'[x] # assigned_teacher[x]}

\* C30 -- One-hop limitation and frame: handling one section in the teacher
\* pass changes the teacher of at most one other section, and only in a
\* swap: that section is the one the chosen qt taught in the period, it was
\* in the period's list and gets a teacher that taught no section in the
\* period (no third section is displaced); every other section's teacher,
\* every section's room, every period's section list and room_schedule stay
\* unchanged.
C30_OneHopFrame ==
    [][TeacherStep =>
          LET now == reached(cursor.k)
              id == now.section_id
              p_id == now.p_id
              others == teacher_changed_besides(id)
          IN  /\ Cardinality(others) <= 1
              /\ hist'.op # "swap" => others = {}
              /\ \A cs \in others :
                     /\ cs \in Range(assigned_sections[p_id])
                     /\ assigned_teacher[cs] = assigned_teacher'[id]
                     /\ teacher_schedule[assigned_teacher[cs]][p_id] = cs
                     /\ assigned_teacher'[cs] # None
                     /\ \A x \in DOMAIN assigned_teacher :
                            ~ (/\ x \in Range(assigned_sections[p_id])
                               /\ assigned_teacher[x] = assigned_teacher'[cs])
                     /\ teacher_schedule[assigned_teacher'[cs]][p_id] = None
              /\ UNCHANGED <<assigned_classroom, assigned_sections,
                             room_schedule, all_sections>>]_vars

\* A swap has just been made in a period that holds a third section with a
\* teacher of its own, and the displaced section has a room.
C30_Witness ==
    /\ hist.op = "swap"
    /\ assigned_classroom[hist.cs] # None
    /\ \E x \in Range(assigned_sections[hist.p_id]) :
           /\ x \notin {hist.cs, hist.section_id}
           /\ assigned_teacher[x] # None
           /\ assigned_teacher[x] = hist.before.assigned_teacher[x]

\* The sections that the teacher pass has handled so far.
handled ==
    {reached(d).section_id : d \in 0..(cursor.k - 1)}

\* What one step of the teacher pass does to a section without a teacher.
SoftFailureStep ==
    TeacherStep =>
        LET now == reached(cursor.k)
            id == now.section_id
            p_id == now.p_id
        IN  \* left without a teacher exactly when nothing was available
            /\ (assigned_teacher'[id] = None) <=>
                   /\ assigned_teacher[id] = None
                   /\ free_under_load(id, p_id) = {}
                   /\ swap_pairs(id, p_id, Snapshot) = {}
            /\ (assigned_teacher'[id] = None) =>
                   /\ hist'.op = "unassigned"
                   /\ UNCHANGED <<fields, scoreboard>>
            \* the pass goes on with the next section
            /\ pc' = pc
            /\ cursor'.k = cursor.k + 1
            \* what a handled section got, it keeps
            /\ \A x \in handled :
                   (assigned_teacher[x] = None)
                       <=> (assigned_teacher'[x] = None)

\* After the teacher pass nothing but the validation and the return follows.
SoftFailureReturns ==
    /\ pc = "fallback_done" => (pc' = "returned" /\ UNCHANGED fields)
    /\ pc' = "raised" => pc \in {"generated", "assign_sections_to_periods"}

\* C31 -- Soft failure: a section of period p ends the teacher pass with a
\* null teacher exactly when, at the moment it was processed, no qualified
\* teacher was free in p and under load and no single-level swap (qt, alt)
\* was available; in that case the pass does not abort, no other section's
\* teacher is changed on its behalf, later sections are still processed
\* (the pass is never stuck before its last section) and run_scheduler
\* still returns.
C31_SoftFailure ==
    /\ [][SoftFailureStep /\ SoftFailureReturns]_vars
    /\ [](pc \in {"assign_teachers_to_sections", "fallback_done"}
              => ENABLED Next)

\* run_scheduler has returned a schedule in which a section of a period has
\* no teacher and a section behind it in the same list has one.
C31_Witness ==
    /\ pc = "returned"
    /\ success = "False"
    /\ \E p \in Range(periods) :
           \E i, j \in 1..Len(assigned_sections[p]) :
               /\ i < j
               /\ assigned_teacher[assigned_sections[p][i]] = None
               /\ assigned_teacher[assigned_sections[p][j]] # None

\* The periods whose section list holds the section.
periods_holding(id) ==
    {p \in Range(periods) : id \in Range(assigned_sections[p])}

\* C32 -- Fully assigned means all three assignments: in every state that
\* run_scheduler reaches, is_fully_assigned() is true of a section if and
\* only if the section has a teacher, has a room and is in the section list
\* of some period.
C32_FullyAssignedAllThree ==
    \A id \in SectionIds :
        is_fully_assigned(id)
            <=> /\ assigned_teacher[id] # None
                /\ assigned_classroom[id] # None
                /\ periods_holding(id) # {}

\* In the fallback one section has a teacher, a room and a period while
\* another section of a period has a teacher and no room.
C32_Witness ==
    /\ success = "False"
    /\ pc = "returned"
    /\ \E a, b \in SectionIds :
           /\ is_fully_assigned(a)
           /\ periods_holding(a) # {}
           /\ periods_holding(b) # {}
           /\ assigned_teacher[b] # None
           /\ assigned_classroom[b] = None

\* Two entries of the period's list hold the same teacher or the same room.
collision_in(p_id) ==
    \E i, j \in 1..Len(assigned_sections[p_id]) :
        /\ i < j
        /\ \/ /\ assigned_teacher[assigned_sections[p_id][i]] # None
              /\ assigned_teacher[assigned_sections[p_id][i]]
                     = assigned_teacher[assigned_sections[p_id][j]]
           \/ /\ assigned_classroom[assigned_sections[p_id][i]] # None
              /\ assigned_classroom[assigned_sections[p_id][i]]
                     = assigned_classroom[assigned_sections[p_id][j]]

\* The ids of the sections of the period that hold the name in the field.
holders(p_id, field, name) ==
    {section_id_of(x) : x \in {y \in Range(assigned_sections[p_id]) :
                                  field[y] = name}}

\* The report of a failed check on a teacher or room collision.
ConflictReport(field) ==
    LET r == check_result
        list == r.conflicting_sections
        slot == Slots[cursor.k + 1]
        here == assigned_sections[r.period][slot[2]]
    IN  \* the first period, in list order, with a collision
        /\ r.period = periods[slot[1]]
        /\ collision_in(r.period)
        /\ \A n \in 1..(slot[1] - 1) : ~ collision_in(periods[n])
        \* the colliding teacher or room
        /\ r.name # None
        /\ r.name = field[here]
        /\ \E j \in 1..(slot[2] - 1) :
               field[assigned_sections[r.period][j]] = r.name
        \* all sections of the period that hold it, in list order
        /\ Len(list) >= 2
        /\ Range(list) = holders(r.period, field, r.name)
        /\ Cardinality(Range(list)) >= 2
        /\ list = [i \in 1..Len(list) |->
                       section_id_of(
                           SelectSeq(assigned_sections[r.period],
                                     LAMBDA x : field[x] = r.name)[i])]

\* The order of the three tests on the entry at which check stops.
ConflictPrecedence ==
    LET slot == Slots[cursor.k + 1]
        p_id == periods[slot[1]]
        i == slot[2]
    IN  /\ check_result.kind = "Section" <=> duplicate_section(p_id, i)
        /\ check_result.kind = "Teacher"
               <=> (~ duplicate_section(p_id, i) /\ teacher_conflict(p_id, i))
        /\ check_result.kind = "Classroom"
               <=> /\ ~ duplicate_section(p_id, i)
                   /\ ~ teacher_conflict(p_id, i)
                   /\ classroom_conflict(p_id, i)

\* C33 -- Conflict report content: when check fails on a teacher or room
\* collision, the error names the first period (in list order) that holds
\* a collision, the colliding teacher or room, and the list of exactly all
\* sections of that period that hold this teacher or room (at least two);
\* on one entry the duplicate-section test comes before the teacher test,
\* and the teacher test before the room test.
C33_ConflictReport ==
    (pc = "check_done" /\ ~ check_result.passed) =>
        /\ ConflictPrecedence
        /\ check_result.kind = "Teacher" => ConflictReport(assigned_teacher)
        /\ check_result.kind = "Classroom"
               => ConflictReport(assigned_classroom)

\* check has stopped in the second period on a teacher held by three
\* sections, at an entry whose room is taken as well.
C33_Witness ==
    /\ pc = "check_done"
    /\ ~ check_result.passed
    /\ check_result.kind = "Teacher"
    /\ check_result.period = "P2"
    /\ Len(check_result.conflicting_sections) = 3
    /\ classroom_conflict("P2", Slots[cursor.k + 1][2])

\* The number of sections that the classes before position c ask for.
RECURSIVE sections_before(_)
sections_before(c) ==
    IF c <= 1 THEN 0
    ELSE sections_before(c - 1) + classes[c - 1].num_sections

pairwise_distinct(f) ==
    \A i, j \in 1..Len(f) : i # j => f[i] # f[j]

\* C34 -- Section generation: generate_sections yields, for each class in
\* list order, exactly num_sections sections with the ids name-1 ..
\* name-num_sections, each with the class name and the required room type
\* of the class and without teacher or room; when the class names are
\* pairwise distinct, so are all section ids.
C34_SectionGeneration ==
    pc = "generated" =>
        /\ Len(all_sections) = sections_before(Len(classes) + 1)
        /\ \A c \in 1..Len(classes) :
               \A i \in 1..classes[c].num_sections :
                   LET s == all_sections[sections_before(c) + i]
                   IN  /\ s.section_id
                              = classes[c].name \o "-" \o ToString(i)
                       /\ s.class_name = classes[c].name
                       /\ s.required_classroom_type
                              = classes[c].required_classroom_type
                       /\ assigned_teacher[s.section_id] = None
                       /\ assigned_classroom[s.section_id] = None
        /\ pairwise_distinct([c \in 1..Len(classes) |-> classes[c].name])
               => pairwise_distinct([i \in 1..Len(all_sections) |->
                                        all_sections[i].section_id])

\* Sections were generated for three classes with different names, one of
\* them without sections, one with two, one named like a section id.
C34_Witness ==
    /\ pc = "generated"
    /\ Len(classes) = 3
    /\ pairwise_distinct([c \in 1..3 |-> classes[c].name])
    /\ classes[1].num_sections = 0
    /\ classes[2].num_sections = 2
    /\ \E c \in 1..3 : classes[c].name = "A-1"
    /\ Len(all_sections) >= 3

\* The section that the field values put into the slot of a teacher or a
\* room in a period: the sections of the period's list that hold the name.
slot_holders(field, name, p_id) ==
    {s \in Range(assigned_sections[p_id]) : field[s] = name}

\* A scoreboard table agrees with the period lists and a section field.
table_agrees(table, names, field) ==
    \A n \in names : \A p_id \in Range(periods) :
        /\ \A s \in SectionIds :
               (n \in DOMAIN table /\ table[n][p_id] = s)
                   <=> s \in slot_holders(field, n, p_id)
        /\ n \in DOMAIN table =>
               table[n][p_id] \in SectionIds \cup {None}

\* C35 -- Scoreboard and section fields agree: at every point between two
\* steps of either path, teacher_schedule[t][p] is section s if and only if
\* s is in the list of period p and the teacher of s is t, and
\* room_schedule[r][p] is section s if and only if s is in the list of
\* period p and the room of s is r; no entry points to a section that has
\* been moved or cleared.
C35_ScoreboardAgreesWithFields ==
    /\ table_agrees(teacher_schedule, Names(teachers), assigned_teacher)
    /\ table_agrees(room_schedule, Names(classrooms), assigned_classroom)

\* The fallback has swapped a teacher in a period that holds a room, after
\* the exhaustive search had placed and removed sections.
C35_Witness ==
    /\ hist.op = "swap"
    /\ teacher_schedule[hist.qt][hist.p_id] = hist.section_id
    /\ teacher_schedule[hist.alt][hist.p_id] = hist.cs
    /\ \E r \in Names(classrooms) : room_schedule[r][hist.p_id] # None

\* The places of the period lists at which the section stands.
places_of(id) ==
    {pl \in Range(periods) \X (1..Len(all_sections) * Len(classroom_types)) :
        /\ pl[2] <= Len(assigned_sections[pl[1]])
        /\ assigned_sections[pl[1]][pl[2]] = id}

labels_distinct ==
    \A i, j \in 1..Len(classroom_types) :
        i # j => classroom_types[i] # classroom_types[j]

\* C36 -- Fallback period membership: after assign_sections_to_periods,
\* with pairwise-distinct room-type labels and at least one period, every
\* section whose required room type is among the labels stands in exactly
\* one period list, exactly once, and every section whose required room
\* type is not among the labels stands in no list and so ends the fallback
\* without room and without teacher.
C36_FallbackPeriodMembership ==
    (InFallback /\ labels_distinct /\ Len(periods) >= 1) =>
        \A i \in 1..Len(all_sections) :
            LET s == all_sections[i]
            IN  IF s.required_classroom_type \in Range(classroom_types)
                THEN pc # "assign_sections_to_periods"
                         => Cardinality(places_of(s.section_id)) = 1
                ELSE /\ places_of(s.section_id) = {}
                     /\ assigned_classroom[s.section_id] = None
                     /\ assigned_teacher[s.section_id] = None

\* The fallback has returned a schedule with two periods in which one
\* section is left out of every period and another has a teacher.
C36_Witness ==
    /\ pc = "returned"
    /\ success = "False"
    /\ Len(periods) = 2
    /\ \E a, b \in Range(all_sections) :
           /\ a.required_classroom_type \notin Range(classroom_types)
           /\ places_of(a.section_id) = {}
           /\ b.required_classroom_type \in Range(classroom_types)
           /\ assigned_teacher[b.section_id] # None

\* The triple at which the loops of a frame stand.
position(frame) == <<frame.pi, frame.ri, frame.ti>>

\* Within one frame the triples tried go strictly forward in the order of
\* the loops: a triple is chosen at or behind the loops' position, and the
\* backtrack moves the position strictly behind the triple chosen; the
\* frames below the running one stand still.
TriesGoForward ==
    (pc = "solving" /\ pc' = "solving") =>
        LET k == Len(stack)
        IN  /\ hist'.op = "choose" =>
                   /\ Len(stack') = k + 1
                   /\ triple_le(position(stack[k]), position(stack'[k]))
                   /\ position(stack'[k]) \in Triples(section_of(stack[k]))
            /\ hist'.op = "backtrack" =>
                   /\ Len(stack') = k
                   /\ triple_le(position(stack[k]), position(stack'[k]))
                   /\ position(stack[k]) # position(stack'[k])
            /\ \A j \in 1..Len(stack') :
                   (j < k \/ hist'.op \notin {"choose", "backtrack"})
                       => position(stack'[j]) = position(stack[j])

\* C37 -- Termination: for every finite input solve_recursive_full ends
\* (the recursion is never deeper than the number of sections plus one,
\* and a frame tries each (period, room, teacher) triple at most once), and
\* each of the three greedy passes ends.
C37_Termination ==
    /\ [](Len(stack) <= Len(all_sections) + 1)
    /\ [][TriesGoForward]_vars
    /\ (pc = "solving") ~> (pc \in {"solved", "failed"})
    /\ (pc = "assign_sections_to_periods")
           ~> (pc \in {"assign_classrooms_to_sections", "raised"})
    /\ (pc = "assign_classrooms_to_sections")
           ~> (pc = "assign_teachers_to_sections")
    /\ (pc = "assign_teachers_to_sections") ~> (pc = "fallback_done")

\* The exhaustive search has returned False from the top frame after a
\* backtrack, and the three passes have run over two sections or more.
C37_Witness ==
    /\ pc = "fallback_done"
    /\ success = "False"
    /\ ~ ret.value
    /\ ret.section_index = 0
    /\ Len(Slots) >= 2
    /\ \E id \in SectionIds : valid_teachers[id] # <<>> /\ valid_rooms[id] # <<>>

\* The call whose entry state the solver's present state is compared with:
\* every live call while the solver runs, the last returned one after it.
entries ==
    IF pc = "solve_recursive"
    THEN {stack[k].entry : k \in 1..Len(stack)}
    ELSE {ret.entry}

\* C39 -- The teacher-only solver solve_recursive never changes a period's
\* section list, a section's room or room_schedule; it returns False
\* without any change when the current section is in no period; and
\* whenever a call returns False, every section's teacher, teacher_schedule
\* and teacher_load are as they were when that call was entered.
C39_TeacherOnlySolver ==
    pc \in {"solve_recursive", "solve_recursive_done"} =>
        /\ \A e \in entries :
               /\ assigned_sections = e.assigned_sections
               /\ assigned_classroom = e.assigned_classroom
               /\ room_schedule = e.room_schedule
        /\ hist.op = "no_period" =>
               /\ ~ ret.value
               /\ periods_with(all_sections[ret.section_index + 1].section_id)
                      = {}
               /\ Snapshot = ret.entry
        /\ hist.op \in {"no_period", "teacher_return_false"} =>
               /\ ~ ret.value
               /\ assigned_teacher = ret.entry.assigned_teacher
               /\ teacher_schedule = ret.entry.teacher_schedule
               /\ teacher_load = ret.entry.teacher_load

\* A call for the second section has returned False after a backtrack of
\* its own, while the first section holds a teacher and a room.
C39_Witness ==
    /\ pc = "solve_recursive"
    /\ hist.op = "teacher_return_false"
    /\ ret.section_index = 1
    /\ Len(teachers_of(all_sections[2])) >= 1
    /\ \E t \in Range(teachers_of(all_sections[2])) :
           /\ teacher_load[t.name] < t.max_sections
           /\ \A p \in Range(periods) : teacher_schedule[t.name][p] = None
    /\ assigned_teacher[all_sections[1].section_id] # None
    /\ assigned_classroom[all_sections[1].section_id] # None

\* The sections that hold the teacher after the step.
taught_after(t) ==
    {s \in SectionIds : assigned_teacher'[s] = t}

\* C38 -- The fallback teacher pass does not look at rooms: a section that
\* got no room in the room pass is still given a teacher by the direct or
\* the swap step, under the same conditions as a section with a room (a
\* qualified teacher free in the period and under load, or else a swap
\* pair); it then occupies that teacher's slot in the period and counts
\* toward the teacher's load, and it still has no room.
C38_TeacherPassIgnoresRooms ==
    [][(TeacherStep /\ assigned_classroom[reached(cursor.k).section_id] = None)
          => LET now == reached(cursor.k)
                 id == now.section_id
                 p_id == now.p_id
                 t == assigned_teacher'[id]
             IN  /\ t # None <=>
                        \/ assigned_teacher[id] # None
                        \/ free_under_load(id, p_id) # {}
                        \/ swap_pairs(id, p_id, Snapshot) # {}
                 /\ free_under_load(id, p_id) # {} => hist'.op = "direct"
                 /\ (free_under_load(id, p_id) = {}
                        /\ swap_pairs(id, p_id, Snapshot) # {})
                        => hist'.op = "swap"
                 /\ t # None =>
                        /\ teacher_schedule'[t][p_id] = id
                        /\ teacher_load'[t] = Cardinality(taught_after(t))
                        /\ teacher_load'[t] >= 1
                 /\ assigned_classroom' = assigned_classroom
                 /\ room_schedule' = room_schedule]_vars

\* A swap has just given a teacher to a section without a room, next to a
\* section of the same period that has a room.
C38_Witness ==
    /\ hist.op = "swap"
    /\ assigned_classroom[hist.section_id] = None
    /\ teacher_schedule[hist.qt][hist.p_id] = hist.section_id
    /\ \E x \in Range(assigned_sections[hist.p_id]) :
           assigned_classroom[x] # None

====
